---- MODULE Spec2Model ----
(***************************************************************************)
(* A state-machine model of the viral-score-collector services:            *)
(*   - ScoreSigner (src/src/services/signer.ts): per-pool nonce issue      *)
(*   - MerkleBuilder (src/unnamed/part_007): checkpoint epoch assignment   *)
(*   - the epoch coordinator (src/src/jobs/scheduler.ts and                *)
(*     src/src/services/epoch-submitter.ts): hourly submission tick,       *)
(*     5-minute reconciliation check and manual trigger;                   *)
(*   - the score calculator, the Merkle proofs, the hourly snapshots and   *)
(*     the post collector (src/src/services/memex-collector.ts).           *)
(* Every `await` of the source is an interleaving point: an async function *)
(* is one action per stretch of synchronous code between two awaits.       *)
(***************************************************************************)
EXTENDS Integers, Sequences, FiniteSets, TLC

VARIABLES
  \* ---- ScoreSigner ----
  nonces,        \* ScoreSigner.nonces : poolId -> last issued nonce (0: no entry)
  pairScores,    \* rows of table pair_scores, in insertion order: [poolId, nonce]
  sreq,          \* signPairScore calls in flight, per request slot
  issued,        \* history: per pool, the nonces getNextNonce returned, in issue order
  signStarts,    \* history: number of signPairScore calls started
  \* ---- MerkleBuilder ----
  checkpoints,   \* rows of table merkle_checkpoints, in insertion order: [epoch, leaves]
  mbEpoch,       \* MerkleBuilder.currentEpoch
  mbTree,        \* MerkleBuilder.currentTree: 0 (null) or the epoch its leaves embed
  breq,          \* buildTree calls in flight, per build slot
  buildStarts,   \* history: number of buildTree calls started
  buildsOk,      \* history: number of buildTree calls that returned a result
  \* ---- epoch coordinator ----
  ready,         \* epochSubmitter.isReady(): SIGNER_PRIVATE_KEY was set
  chainEpoch,    \* contract getCurrentEpoch()
  lastEpoch,     \* contract lastEpoch()
  hourlyDue,     \* the '0 * * * *' tick of the current hour has not fired yet
  scoresSize,    \* latestTokenScores.size
  rankable,      \* the liquidity source lists a quote pool of a token with a positive score
  run,           \* task runs in flight, per run slot
  rpcFaults,     \* history: number of injected RPC / transport failures
  \* ---- epoch data source (getEpochScores, processHourlySnapshot) ----
  wallHour,      \* floor(Date.now() / 3600000), the wall-clock hour
  snapshots,     \* hours for which table token_score_snapshots holds rows
  picked,        \* history: the last getEpochScores call and what it returned
  tokenScores,   \* latestTokenScores: entries [key, score] in insertion order
  snapRows,      \* rows of table token_score_snapshots: [tokenSymbol, snapshotHour, score]
  hrun,          \* processHourlySnapshot runs in flight, per slot
  upserted,      \* history: the upserts executed, each with the number of its run
  snapStarts,    \* history: number of processHourlySnapshot runs that had scores
  \* ---- MemexCollector (collection, metrics refresh, backfill) ----
  memexPosts,    \* rows of table memex_posts
  crun,          \* collection, refresh and backfill runs in flight, per slot
  collectStarts, \* history: number of runs started
  saveCount,     \* history: per source post id, the statements that stored it (2: several)
  backfillCompleted,        \* scheduler.ts backfillCompleted
  backfillInProgress,       \* scheduler.ts backfillInProgress
  latestAggregatedMetrics,  \* scheduler.ts latestAggregatedMetrics
  aggregatedFrom,           \* history: the post ids of the rows it was aggregated from
  trigger,       \* triggerBackfill calls: [count, status of the last one]
  \* ---- WebSocket stream (ws/stream.ts) ----
  wsOpen,        \* the connections that are open
  clients,       \* the keys of the Map `clients`
  wsData,        \* ws.data per connection: [subscribedPools, subscribeAll]
  wsSent,        \* the type of the last message sent to each connection
  wanted,        \* history: per connection, the pool ids subscribed and not unsubscribed
  wantAll,       \* history: the connections that asked for all updates
  bcast,         \* history: the last broadcast, its receivers and the state it met
  \* ---- collectIncrementalPosts, page by page ----
  pager,         \* the fetch loop: [pc, lastSavedId, cursor, pageCount, fetches]
  \* ---- calendar ----
  today,         \* whole days passed since the feed was dated
  \* ---- pure functions (pair building, ranking, matching, scoring) ----
  arg,           \* the argument of the function under study
  called,        \* the function has been applied to arg
  result         \* what it returned

signerVars == <<nonces, pairScores, sreq, issued, signStarts>>
merkleVars == <<checkpoints, mbEpoch, mbTree, breq, buildStarts, buildsOk>>
epochVars  == <<ready, chainEpoch, lastEpoch, hourlyDue, scoresSize, rankable, run, rpcFaults>>
hourlyVars == <<tokenScores, snapRows, hrun, upserted, snapStarts>>
collectVars == <<memexPosts, crun, collectStarts, saveCount, backfillCompleted,
                 backfillInProgress, latestAggregatedMetrics, aggregatedFrom, trigger>>
streamVars == <<wsOpen, clients, wsData, wsSent, wanted, wantAll, bcast>>
pageVars   == <<pager>>
otherVars  == <<streamVars, pageVars, today>>
snapVars   == <<wallHour, snapshots, picked, hourlyVars, collectVars, otherVars>>
callVars   == <<arg, called, result>>
auxVars == <<snapVars, callVars>>
vars == <<signerVars, merkleVars, epochVars, auxVars>>

\* ------------------------------------------------------------------ bounds
MaxSigns == 3       \* signPairScore calls started in one behaviour
MaxBuilds == 3      \* buildTree calls started in one behaviour
MaxEpoch == 2       \* the contract's clock stops advancing here
MaxFaults == 1      \* injected RPC failures in one behaviour
MaxSignSlots == 2   \* signPairScore calls in flight at once
MaxBuildSlots == 2  \* buildTree calls in flight at once
MaxRuns == 2        \* scheduler task runs in flight at once
MaxHour == 3        \* the wall clock stops advancing here
MaxRanked == 4      \* tokens in a ranking list handed to buildViralPairs
MaxPools == 4       \* pools (bin steps) of one token
MaxNameLen == 2     \* letters in a symbol, a display name or a score key
MaxEntries == 2     \* entries of a score map handed to findTokenScore
MaxTokens == 4      \* tokens known to the liquidity source
MaxLeaves == 3      \* scores handed to one buildTree call
MaxCheckpoints == 2 \* checkpoints persisted before a proof is asked for
MaxRestarts == 1    \* process restarts in one behaviour
MaxSnapRuns == 3    \* processHourlySnapshot runs started in one behaviour
MaxSnapSlots == 2   \* processHourlySnapshot runs in flight at once
FeedSize == 3       \* posts in the source feed
MaxCollectRuns == 3 \* collection, refresh and backfill runs started in one behaviour
MaxCollectSlots == 2 \* collection, refresh and backfill runs in flight at once
MaxWsClients == 2   \* WebSocket connections
MaxCursor == 2      \* cursors the metric source hands out
MaxDays == 4        \* the calendar stops advancing here
MaxTriggers == 3    \* calls of triggerBackfill
MaxOver == 2        \* entries of the score cache beyond its limit
MaxStep == 5        \* score patterns of the cache: step from one entry to the next
MaxOffset == 2      \* score patterns of the cache: score before the first step
ScoreSpread == 7    \* score patterns of the cache: number of distinct scores

Pools == {"P", "Q"}
SignSlots == 1..MaxSignSlots
BuildSlots == 1..MaxBuildSlots
RunSlots == 1..MaxRuns

Max(S) == CHOOSE x \in S : \A y \in S : y <= x
Min2(a, b) == IF a < b THEN a ELSE b

\* ==========================================================================
\* ScoreSigner
\* ==========================================================================

IdleSign == [pc |-> "idle", pool |-> "P", lastNonce |-> 0, nonce |-> 0]

\* db.query.pairScores.findFirst({where poolId, orderBy desc(nonce)}) followed by
\* `lastScore ? BigInt(lastScore.nonce) : 0n`
LastPersistedNonce(rows, pool) ==
  LET ns == {rows[i].nonce : i \in {j \in 1..Len(rows) : rows[j].poolId = pool}}
  IN  IF ns = {} THEN 0 ELSE Max(ns)

InitSigner ==
  /\ nonces = [p \in Pools |-> 0]
  /\ pairScores = << >>
  /\ sreq = [r \in SignSlots |-> IdleSign]
  /\ issued = [p \in Pools |-> << >>]
  /\ signStarts = 0

\* signPairScore up to the first await that yields: getNextNonce is entered
\* synchronously; with a cache entry it increments and stores it before any await,
\* without one it suspends on the database query.
SignStart(r, pool) ==
  /\ sreq[r].pc = "idle"
  /\ signStarts < MaxSigns
  /\ signStarts' = signStarts + 1
  /\ IF nonces[pool] # 0
       THEN /\ nonces' = [nonces EXCEPT ![pool] = nonces[pool] + 1]
            /\ issued' = [issued EXCEPT ![pool] = Append(@, nonces[pool] + 1)]
            /\ sreq' = [sreq EXCEPT ![r] = [pc |-> "sign", pool |-> pool,
                                             lastNonce |-> 0, nonce |-> nonces[pool] + 1]]
       ELSE /\ sreq' = [sreq EXCEPT ![r] = [pc |-> "query", pool |-> pool,
                                             lastNonce |-> 0, nonce |-> 0]]
            /\ UNCHANGED <<nonces, issued>>
  /\ UNCHANGED <<pairScores, merkleVars, epochVars, auxVars>>

\* the database answers the findFirst query
SignQuery(r) ==
  /\ sreq[r].pc = "query"
  /\ sreq' = [sreq EXCEPT ![r].pc = "resume",
                          ![r].lastNonce = LastPersistedNonce(pairScores, sreq[r].pool)]
  /\ UNCHANGED <<nonces, pairScores, issued, signStarts, merkleVars, epochVars, auxVars>>

\* getNextNonce after its await: nextNonce = lastNonce + 1, stored unconditionally
NonceAfterQuery(lastNonce) == lastNonce + 1

SignResume(r) ==
  /\ sreq[r].pc = "resume"
  /\ LET pool == sreq[r].pool
         next == NonceAfterQuery(sreq[r].lastNonce)
     IN  /\ nonces' = [nonces EXCEPT ![pool] = next]
         /\ issued' = [issued EXCEPT ![pool] = Append(@, next)]
         /\ sreq' = [sreq EXCEPT ![r].pc = "sign", ![r].nonce = next]
  /\ UNCHANGED <<pairScores, signStarts, merkleVars, epochVars, auxVars>>

\* await this.signMessage(messageHash): resolves, or rejects and the call throws
SignMessage(r) ==
  /\ sreq[r].pc = "sign"
  /\ \E ok \in BOOLEAN :
       sreq' = [sreq EXCEPT ![r].pc = IF ok THEN "save" ELSE "failed"]
  /\ UNCHANGED <<nonces, pairScores, issued, signStarts, merkleVars, epochVars, auxVars>>

\* await this.saveSignedPairScore(...): the insert succeeds (pair_scores has no
\* unique index on (pool_id, nonce)), or the store rejects it and the call throws
SignSave(r) ==
  /\ sreq[r].pc = "save"
  /\ \/ /\ pairScores' = Append(pairScores, [poolId |-> sreq[r].pool, nonce |-> sreq[r].nonce])
        /\ sreq' = [sreq EXCEPT ![r].pc = "done"]
     \/ /\ sreq' = [sreq EXCEPT ![r].pc = "failed"]
        /\ UNCHANGED pairScores
  /\ UNCHANGED <<nonces, issued, signStarts, merkleVars, epochVars, auxVars>>

\* the call has returned its SignedScore (or thrown): the slot is free again
SignReturn(r) ==
  /\ sreq[r].pc \in {"done", "failed"}
  /\ sreq' = [sreq EXCEPT ![r] = IdleSign]
  /\ UNCHANGED <<nonces, pairScores, issued, signStarts, merkleVars, epochVars, auxVars>>

\* the process is restarted: the calls in flight are gone with it, the new
\* ScoreSigner starts with an empty nonce cache, pair_scores is kept; the restart
\* is marked by a 0 in the history of issued nonces
Restart ==
  /\ \A p \in Pools :
       Cardinality({i \in 1..Len(issued[p]) : issued[p][i] = 0}) < MaxRestarts
  /\ nonces' = [p \in Pools |-> 0]
  /\ sreq' = [r \in SignSlots |-> IdleSign]
  /\ issued' = [p \in Pools |-> Append(issued[p], 0)]
  /\ UNCHANGED <<pairScores, signStarts, merkleVars, epochVars, auxVars>>

NextSigner ==
  \/ \E r \in SignSlots, pool \in Pools : SignStart(r, pool)
  \/ \E r \in SignSlots : SignQuery(r)
  \/ \E r \in SignSlots : SignResume(r)
  \/ \E r \in SignSlots : SignMessage(r)
  \/ \E r \in SignSlots : SignSave(r)
  \/ \E r \in SignSlots : SignReturn(r)

\* ==========================================================================
\* MerkleBuilder
\* ==========================================================================

IdleBuild == [pc |-> "idle", empty |-> FALSE, epoch |-> 0]

\* getCurrentEpoch: findFirst({orderBy desc(epoch)}), then
\* `lastCheckpoint ? lastCheckpoint.epoch + 1 : 1`
GetCurrentEpoch(rows) ==
  IF Len(rows) = 0 THEN 1 ELSE Max({rows[i].epoch : i \in 1..Len(rows)}) + 1

\* (mutation) a store without the unique index on epoch
CheckpointInsertUnchecked(rows, epoch) == TRUE

\* merkle_checkpoints.epoch is `.unique()` and carries the unique index
\* merkle_epoch_idx: the store accepts an insert only for an epoch it does not hold
CheckpointInsertAccepted(rows, epoch) ==
  \A i \in 1..Len(rows) : rows[i].epoch # epoch

\* buildTree is entered with a score map that is empty or not
BuildStart(b, empty) ==
  /\ breq[b].pc = "idle"
  /\ buildStarts < MaxBuilds
  /\ buildStarts' = buildStarts + 1
  /\ breq' = [breq EXCEPT ![b] = [pc |-> "query", empty |-> empty, epoch |-> 0]]
  /\ UNCHANGED <<checkpoints, mbEpoch, mbTree, buildsOk, signerVars, epochVars, auxVars>>

\* the database answers getCurrentEpoch's query
BuildQuery(b) ==
  /\ breq[b].pc = "query"
  /\ breq' = [breq EXCEPT ![b].pc = "resume", ![b].epoch = GetCurrentEpoch(checkpoints)]
  /\ UNCHANGED <<checkpoints, mbEpoch, mbTree, buildStarts, buildsOk, signerVars, epochVars, auxVars>>

\* (mutation) buildTree without `if (leaves.length === 0) throw`
BuildResumeUnchecked(b) ==
  /\ breq[b].pc = "resume"
  /\ mbEpoch' = breq[b].epoch
  /\ breq' = [breq EXCEPT ![b].pc = "insert"]
  /\ mbTree' = breq[b].epoch
  /\ UNCHANGED <<checkpoints, buildStarts, buildsOk, signerVars, epochVars, auxVars>>

\* buildTree between its two awaits: this.currentEpoch is assigned, the leaves are
\* built with that epoch, an empty leaf list throws, otherwise currentTree is
\* replaced and saveCheckpoint(root, this.currentEpoch, ...) is called
BuildResume(b) ==
  /\ breq[b].pc = "resume"
  /\ mbEpoch' = breq[b].epoch
  /\ IF breq[b].empty
       THEN /\ breq' = [breq EXCEPT ![b].pc = "threw"]
            /\ UNCHANGED mbTree
       ELSE /\ breq' = [breq EXCEPT ![b].pc = "insert"]
            /\ mbTree' = breq[b].epoch
  /\ UNCHANGED <<checkpoints, buildStarts, buildsOk, signerVars, epochVars, auxVars>>

\* saveCheckpoint's insert reaches the store: accepted, or rejected by the unique
\* index, or failing for another reason (connection lost)
BuildInsert(b) ==
  /\ breq[b].pc = "insert"
  /\ \/ /\ CheckpointInsertAccepted(checkpoints, breq[b].epoch)
        /\ checkpoints' = Append(checkpoints, [epoch |-> breq[b].epoch])
        /\ buildsOk' = buildsOk + 1
        /\ breq' = [breq EXCEPT ![b].pc = "done"]
     \/ /\ ~CheckpointInsertAccepted(checkpoints, breq[b].epoch)
        /\ breq' = [breq EXCEPT ![b].pc = "rejected"]
        /\ UNCHANGED <<checkpoints, buildsOk>>
     \/ /\ breq' = [breq EXCEPT ![b].pc = "threw"]
        /\ UNCHANGED <<checkpoints, buildsOk>>
  /\ UNCHANGED <<mbEpoch, mbTree, buildStarts, signerVars, epochVars, auxVars>>

\* buildTree has returned {root, epoch, poolCount} or thrown
BuildReturn(b) ==
  /\ breq[b].pc \in {"done", "rejected", "threw"}
  /\ breq' = [breq EXCEPT ![b] = IdleBuild]
  /\ UNCHANGED <<checkpoints, mbEpoch, mbTree, buildStarts, buildsOk, signerVars, epochVars, auxVars>>

InitMerkle ==
  /\ checkpoints = << >>
  /\ mbEpoch = 0
  /\ mbTree = 0
  /\ breq = [b \in BuildSlots |-> IdleBuild]
  /\ buildStarts = 0
  /\ buildsOk = 0

NextMerkle ==
  \/ \E b \in BuildSlots, empty \in BOOLEAN : BuildStart(b, empty)
  \/ \E b \in BuildSlots : BuildQuery(b)
  \/ \E b \in BuildSlots : BuildResume(b)
  \/ \E b \in BuildSlots : BuildInsert(b)
  \/ \E b \in BuildSlots : BuildReturn(b)

\* ==========================================================================
\* Epoch coordinator: processEpochSubmission, processEpochCheck,
\* triggerEpochSubmission over the settlement contract
\* ==========================================================================

\* kind:    which task started the run ("hourly", "check", "manual"), or
\*          "status" for a getEpochStatus query
\* pc:      the await the run is suspended on ("unhandled": its promise rejected
\*          with nobody to catch it); "o_*" is the caller's own code
\*          (processEpochCheck / triggerEpochSubmission), "p_*" is inside
\*          processEpochSubmission
\* epoch:   currentEpoch as last read from the contract by this run
\* first:   history: what a submission attempt's first contract read showed
\*          ("can": current > last, "cannot": current <= last)
\* missing: processEpochCheck's missingEpochs
\* outcome: how processEpochSubmission ended inside this run
\* signed, wrote, receipt: history of submitEpoch inside this run
\* report:  what the caller returned / logged
\* busyAtStart: history: a manual trigger arrived while another run was inside
\*          processEpochSubmission
IdleRun == [kind |-> "none", pc |-> "idle", epoch |-> 0, first |-> "none",
            missing |-> 0, outcome |-> "none", signed |-> FALSE, wrote |-> FALSE,
            receipt |-> "none", report |-> "none", busyAtStart |-> FALSE]

\* the run slots are interchangeable: a new run takes the lowest free one
FreeSlot(r) ==
  /\ run[r].pc = "idle"
  /\ \A q \in RunSlots : q < r => run[q].pc # "idle"

\* the process is up: no task promise has rejected unhandled (the runtime ends the
\* process on an unhandled rejection, and with it every CronJob)
Alive == \A q \in RunSlots : run[q].pc # "unhandled"

InSubmission(rec) == rec.pc \in {"p_cur", "p_last", "p_data", "p_sign", "p_write", "p_wait"}

\* (mutation) canSubmit computed with >= instead of >
CanSubmitOrEqual(currentEpoch, last) == currentEpoch >= last

\* EpochSubmitter.canSubmitNewEpoch: canSubmit: currentEpoch > lastEpoch
CanSubmit(currentEpoch, last) == currentEpoch > last

\* (mutation) the catch-up started for any number of missing epochs
CatchUpAnyMissing(size, missingEpochs) == size > 0 /\ missingEpochs >= 1

\* (mutation) the catch-up never started
CatchUpNever(size, missingEpochs) == FALSE

\* processEpochCheck: `latestTokenScores.size > 0 && missingEpochs === 1`
CatchUpAllowed(size, missingEpochs) == size > 0 /\ missingEpochs = 1

\* the settlement contract's submitEpoch: an epoch is accepted once, and not ahead
\* of the contract's clock (error InvalidEpoch otherwise)
ContractAccepts(epoch, currentEpoch, last) == last < epoch /\ epoch <= currentEpoch

\* what the caller makes of a finished processEpochSubmission, which returns void
\* and has caught every error itself: triggerEpochSubmission returns
\* {status: 'success', message: 'Epoch submission triggered'}
ReportAfterRun(kind, outcome) == IF kind = "manual" THEN "success" ELSE "none"

\* what submitEpoch returns once waitForTransactionReceipt resolved: the receipt's
\* status is logged and the result {txHash, epoch, pairsCount} is returned
OutcomeOfReceipt(status) == "submitted"

EndSubmission(rec, out) ==
  [rec EXCEPT !.pc = "done", !.outcome = out, !.report = ReportAfterRun(rec.kind, out)]

\* (mutation) processEpochSubmission without its readiness check
EnterSubmissionUnchecked(rec) == [rec EXCEPT !.pc = "p_cur"]

\* processEpochSubmission up to its first await: the readiness check
EnterSubmission(rec) ==
  IF ~ready THEN EndSubmission(rec, "not_ready") ELSE [rec EXCEPT !.pc = "p_cur"]

\* (mutation) a task body without its try/catch: the error leaves the task
ThrownUncaught(rec) == [rec EXCEPT !.pc = "unhandled"]

\* an error thrown inside the run is caught by the innermost try around it
Thrown(rec) ==
  IF InSubmission(rec) THEN EndSubmission(rec, "failed")
  ELSE [rec EXCEPT !.pc = "done", !.report = "error"]

InitEpoch ==
  /\ ready \in BOOLEAN
  /\ chainEpoch = 1
  /\ lastEpoch \in {0, 1}
  /\ hourlyDue = FALSE
  /\ scoresSize = 0
  /\ rankable \in BOOLEAN
  /\ run = [r \in RunSlots |-> IdleRun]
  /\ rpcFaults = 0

\* CronJob('0 * * * *', processEpochSubmission): the tick calls the task; nothing
\* in startScheduler or in the task looks at a run still in flight
HourlyTick(r) ==
  /\ Alive
  /\ FreeSlot(r)
  /\ hourlyDue
  /\ hourlyDue' = FALSE
  /\ run' = [run EXCEPT ![r] = EnterSubmission([IdleRun EXCEPT !.kind = "hourly"])]
  /\ UNCHANGED <<ready, chainEpoch, lastEpoch, scoresSize, rankable, rpcFaults, signerVars, merkleVars, auxVars>>

\* CronJob('*/5 * * * *', processEpochCheck) and the startup setTimeout
CheckTick(r) ==
  /\ Alive
  /\ FreeSlot(r)
  /\ run' = [run EXCEPT ![r] =
               IF ~ready THEN [IdleRun EXCEPT !.kind = "check", !.pc = "done", !.report = "not_ready"]
               ELSE [IdleRun EXCEPT !.kind = "check", !.pc = "o_cur"]]
  /\ UNCHANGED <<ready, chainEpoch, lastEpoch, hourlyDue, scoresSize, rankable, rpcFaults, signerVars, merkleVars, auxVars>>

\* POST /epoch/submit -> triggerEpochSubmission
ManualTrigger(r) ==
  /\ Alive
  /\ FreeSlot(r)
  /\ LET busy == \E q \in RunSlots : InSubmission(run[q])
     IN  run' = [run EXCEPT ![r] =
               IF ~ready THEN [IdleRun EXCEPT !.kind = "manual", !.pc = "done", !.report = "not_ready"]
               ELSE [IdleRun EXCEPT !.kind = "manual", !.pc = "o_cur", !.busyAtStart = busy]]
  /\ UNCHANGED <<ready, chainEpoch, lastEpoch, hourlyDue, scoresSize, rankable, rpcFaults, signerVars, merkleVars, auxVars>>

\* GET /epoch/status -> getEpochStatus: {ready: false, ...} without a key,
\* otherwise canSubmitNewEpoch and getActiveViralPairs are read
StatusQuery(r) ==
  /\ Alive
  /\ FreeSlot(r)
  /\ run' = [run EXCEPT ![r] =
               IF ~ready THEN [IdleRun EXCEPT !.kind = "status", !.pc = "done", !.report = "not_ready"]
               ELSE [IdleRun EXCEPT !.kind = "status", !.pc = "o_cur"]]
  /\ UNCHANGED <<ready, chainEpoch, lastEpoch, hourlyDue, scoresSize, rankable, rpcFaults, signerVars, merkleVars, auxVars>>

\* getEpochStatus: `await epochSubmitter.getActiveViralPairs()`, then the status
\* object is returned
ReadPairs(r) ==
  /\ run[r].pc = "o_pairs"
  /\ run' = [run EXCEPT ![r].pc = "done", ![r].report = "status"]
  /\ UNCHANGED <<ready, chainEpoch, lastEpoch, hourlyDue, scoresSize, rankable, rpcFaults, signerVars, merkleVars, auxVars>>

\* an injected transport failure: the awaited call rejects
Fault(r, pcs) ==
  /\ run[r].pc \in pcs
  /\ rpcFaults < MaxFaults
  /\ rpcFaults' = rpcFaults + 1
  /\ run' = [run EXCEPT ![r] = Thrown(run[r])]
  /\ UNCHANGED <<ready, chainEpoch, lastEpoch, hourlyDue, scoresSize, rankable, signerVars, merkleVars, auxVars>>

\* canSubmitNewEpoch, first await: getCurrentEpoch()
ReadCurrent(r) ==
  /\ run[r].pc \in {"o_cur", "p_cur"}
  /\ run' = [run EXCEPT ![r].epoch = chainEpoch,
                        ![r].pc = IF run[r].pc = "o_cur" THEN "o_last" ELSE "p_last"]
  /\ UNCHANGED <<ready, chainEpoch, lastEpoch, hourlyDue, scoresSize, rankable, rpcFaults, signerVars, merkleVars, auxVars>>

\* canSubmitNewEpoch, second await: lastEpoch(); then the caller's decision on
\* canSubmit, up to its next await
ReadLast(r) ==
  /\ run[r].pc \in {"o_last", "p_last"}
  /\ LET rec == run[r]
         can == CanSubmit(rec.epoch, lastEpoch)
         seen == IF rec.first # "none" \/ rec.kind = "status" THEN rec.first
                 ELSE IF rec.epoch > lastEpoch THEN "can" ELSE "cannot"
         rec1 == [rec EXCEPT !.first = seen]
     IN  run' = [run EXCEPT ![r] =
           IF rec.pc = "p_last"
             THEN IF can THEN [rec1 EXCEPT !.pc = "p_data"]
                  ELSE EndSubmission(rec1, "cannot_submit")
           ELSE IF rec.kind = "status" THEN [rec1 EXCEPT !.pc = "o_pairs"]
           ELSE IF rec.kind = "manual"
             THEN IF can THEN [rec1 EXCEPT !.pc = "o_validate"]
                  ELSE [rec1 EXCEPT !.pc = "done", !.report = "skipped"]
           ELSE IF can /\ rec.epoch - lastEpoch > 0
                  THEN [rec1 EXCEPT !.pc = "o_validate", !.missing = rec.epoch - lastEpoch]
                  ELSE [rec1 EXCEPT !.pc = "done", !.report = "cannot"]]
  /\ UNCHANGED <<ready, chainEpoch, lastEpoch, hourlyDue, scoresSize, rankable, rpcFaults, signerVars, merkleVars, auxVars>>

\* the caller's `await validateEpochData(currentEpoch)` (its result only feeds the
\* log and the warnings), then the call of processEpochSubmission
Validate(r) ==
  /\ run[r].pc = "o_validate"
  /\ LET rec == run[r]
     IN  run' = [run EXCEPT ![r] =
           IF rec.kind = "manual" THEN EnterSubmission(rec)
           ELSE IF CatchUpAllowed(scoresSize, rec.missing) THEN EnterSubmission(rec)
           ELSE IF rec.missing > 1 THEN [rec EXCEPT !.pc = "done", !.report = "warned"]
           ELSE [rec EXCEPT !.pc = "done"]]
  /\ UNCHANGED <<ready, chainEpoch, lastEpoch, hourlyDue, scoresSize, rankable, rpcFaults, signerVars, merkleVars, auxVars>>

\* processEpochSubmission steps 3 to 7: validateEpochData, getEpochScores (the
\* snapshot of the looked-up hour if it has rows, else latestTokenScores),
\* buildTokenRankings (empty when the liquidity query fails or nothing matches) and
\* buildViralPairs (never empty for a ranking: every listed token has a pool)
GatherData(r) ==
  /\ run[r].pc = "p_data"
  /\ \E snapshotRows \in BOOLEAN, liquidityUp \in BOOLEAN :
       LET size == IF snapshotRows THEN 1 ELSE scoresSize
       IN  /\ (~liquidityUp) => rpcFaults < MaxFaults
           /\ rpcFaults' = IF liquidityUp THEN rpcFaults ELSE rpcFaults + 1
           /\ run' = [run EXCEPT ![r] =
                IF size = 0 THEN EndSubmission(run[r], "no_scores")
                ELSE IF ~(liquidityUp /\ rankable) THEN EndSubmission(run[r], "no_rankings")
                ELSE [run[r] EXCEPT !.pc = "p_sign"]]
  /\ UNCHANGED <<ready, chainEpoch, lastEpoch, hourlyDue, scoresSize, rankable, signerVars, merkleVars, auxVars>>

\* submitEpoch: `await this.signEpoch(epoch, pairs)`
SignEpoch(r) ==
  /\ run[r].pc = "p_sign"
  /\ run' = [run EXCEPT ![r].signed = TRUE, ![r].pc = "p_write"]
  /\ UNCHANGED <<ready, chainEpoch, lastEpoch, hourlyDue, scoresSize, rankable, rpcFaults, signerVars, merkleVars, auxVars>>

\* submitEpoch: `await this.walletClient.writeContract(...)`: the transaction is
\* sent, or the call rejects because the node's pre-flight already sees the revert
WriteContract(r) ==
  /\ run[r].pc = "p_write"
  /\ \/ run' = [run EXCEPT ![r].wrote = TRUE, ![r].pc = "p_wait"]
     \/ /\ ~ContractAccepts(run[r].epoch, chainEpoch, lastEpoch)
        /\ run' = [run EXCEPT ![r] = Thrown(run[r])]
  /\ UNCHANGED <<ready, chainEpoch, lastEpoch, hourlyDue, scoresSize, rankable, rpcFaults, signerVars, merkleVars, auxVars>>

\* submitEpoch: `await this.publicClient.waitForTransactionReceipt(...)` resolves:
\* the transaction was mined, executed or reverted by the contract
Confirm(r) ==
  /\ run[r].pc = "p_wait"
  /\ LET ok == ContractAccepts(run[r].epoch, chainEpoch, lastEpoch)
         status == IF ok THEN "success" ELSE "reverted"
     IN  /\ lastEpoch' = IF ok THEN run[r].epoch ELSE lastEpoch
         /\ run' = [run EXCEPT ![r] =
              EndSubmission([run[r] EXCEPT !.receipt = status], OutcomeOfReceipt(status))]
  /\ UNCHANGED <<ready, chainEpoch, hourlyDue, scoresSize, rankable, rpcFaults, signerVars, merkleVars, auxVars>>

\* waitForTransactionReceipt times out: the transaction is lost, or mined unseen
ConfirmTimeout(r) ==
  /\ run[r].pc = "p_wait"
  /\ rpcFaults < MaxFaults
  /\ rpcFaults' = rpcFaults + 1
  /\ \E mined \in BOOLEAN :
       lastEpoch' = IF mined /\ ContractAccepts(run[r].epoch, chainEpoch, lastEpoch)
                      THEN run[r].epoch ELSE lastEpoch
  /\ run' = [run EXCEPT ![r] = Thrown(run[r])]
  /\ UNCHANGED <<ready, chainEpoch, hourlyDue, scoresSize, rankable, signerVars, merkleVars, auxVars>>

\* the task's promise has settled; for the manual trigger the HTTP response is sent
RunReturn(r) ==
  /\ run[r].pc = "done"
  /\ run' = [run EXCEPT ![r] = IdleRun]
  /\ UNCHANGED <<ready, chainEpoch, lastEpoch, hourlyDue, scoresSize, rankable, rpcFaults, signerVars, merkleVars, auxVars>>

\* the contract's clock passes an hour boundary: floor(block.timestamp / 3600)
AdvanceClock ==
  /\ chainEpoch < MaxEpoch
  /\ chainEpoch' = chainEpoch + 1
  /\ hourlyDue' = TRUE
  /\ UNCHANGED <<ready, lastEpoch, scoresSize, rankable, run, rpcFaults, signerVars, merkleVars, auxVars>>

\* processScoreCollection stores the first scores in latestTokenScores
ScoresArrive ==
  /\ Alive
  /\ scoresSize = 0
  /\ scoresSize' = 1
  /\ UNCHANGED <<ready, chainEpoch, lastEpoch, hourlyDue, rankable, run, rpcFaults, signerVars, merkleVars, auxVars>>

\* processScoreCollection whose collectAndAggregate() rejects (telemetry or store
\* unreachable): the catch logs it and latestTokenScores is left as it was
CollectionFails ==
  /\ Alive
  /\ rpcFaults < MaxFaults
  /\ rpcFaults' = rpcFaults + 1
  /\ UNCHANGED <<ready, chainEpoch, lastEpoch, hourlyDue, scoresSize, rankable, run, signerVars, merkleVars, auxVars>>

RunStep(r) ==
  \/ Fault(r, {"o_cur", "o_last", "o_pairs", "p_cur", "p_last", "p_write"})
  \/ ReadCurrent(r)
  \/ ReadLast(r)
  \/ ReadPairs(r)
  \/ Validate(r)
  \/ GatherData(r)
  \/ SignEpoch(r)
  \/ WriteContract(r)
  \/ Confirm(r)
  \/ ConfirmTimeout(r)
  \/ RunReturn(r)

NextEpoch ==
  \/ \E r \in RunSlots : HourlyTick(r)
  \/ \E r \in RunSlots : CheckTick(r)
  \/ \E r \in RunSlots : ManualTrigger(r)
  \/ \E r \in RunSlots : StatusQuery(r)
  \/ \E r \in RunSlots : RunStep(r)
  \/ AdvanceClock
  \/ ScoresArrive
  \/ CollectionFails

\* ==========================================================================
\* Epoch data source: getEpochScores over the hourly snapshots
\* ==========================================================================

NoPick == [epoch |-> 0, now |-> 0, own |-> FALSE, prev |-> FALSE, answered |-> FALSE,
           fromSnapshot |-> FALSE, snapshotHour |-> 0]

\* getEpochScores: isCurrentEpoch = epochStart <= now < epochStart + 1h
IsCurrentEpoch(epoch, now) == epoch = now

\* getEpochScores: the hour whose rows are queried: the epoch's start hour,
\* moved one hour back when the epoch is the current one
LookupHour(epoch, now) == IF IsCurrentEpoch(epoch, now) THEN epoch - 1 ELSE epoch

\* getEpochScores: the one findMany on the looked-up hour; without rows, or when
\* the query throws, latestTokenScores is returned with snapshotHour null (0)
GetEpochScores(epoch, now, snaps, answered) ==
  LET h == LookupHour(epoch, now)
  IN  IF answered /\ h \in snaps
        THEN [fromSnapshot |-> TRUE, snapshotHour |-> h]
        ELSE [fromSnapshot |-> FALSE, snapshotHour |-> 0]

IdleSnap == [pc |-> "idle", no |-> 0, hour |-> 0, pending |-> << >>]

InitSnap ==
  /\ wallHour = 1
  /\ snapshots = {}
  /\ picked = NoPick
  /\ tokenScores = << >>
  /\ snapRows = {}
  /\ hrun = [r \in 1..MaxSnapSlots |-> IdleSnap]
  /\ upserted = {}
  /\ snapStarts = 0

\* the wall clock passes an hour boundary
WallClockTick ==
  /\ wallHour < MaxHour
  /\ wallHour' = wallHour + 1
  /\ UNCHANGED <<snapshots, picked, hourlyVars, collectVars, signerVars, merkleVars, epochVars, callVars, otherVars>>

\* processHourlySnapshot (minute 5 of the hour): nothing without scores in memory,
\* otherwise the rows of the current hour are upserted
HourlySnapshot ==
  /\ scoresSize > 0
  /\ snapshots' = snapshots \cup {wallHour}
  /\ UNCHANGED <<wallHour, picked, hourlyVars, collectVars, signerVars, merkleVars, epochVars, callVars, otherVars>>

\* a getEpochScores(epoch) call, for the current epoch or a past one
PickScores(epoch, answered) ==
  /\ epoch <= wallHour
  /\ LET res == GetEpochScores(epoch, wallHour, snapshots, answered)
     IN  picked' = [epoch |-> epoch, now |-> wallHour,
                    own |-> epoch \in snapshots, prev |-> (epoch - 1) \in snapshots,
                    answered |-> answered,
                    fromSnapshot |-> res.fromSnapshot, snapshotHour |-> res.snapshotHour]
  /\ UNCHANGED <<wallHour, snapshots, hourlyVars, collectVars, signerVars, merkleVars, epochVars, callVars, otherVars>>

NextSnap ==
  \/ WallClockTick
  \/ HourlySnapshot
  \/ ScoresArrive
  \/ \E epoch \in 1..MaxHour, answered \in BOOLEAN : PickScores(epoch, answered)

\* ==========================================================================
\* Pure functions: the argument is drawn at start, one action applies the function
\* ==========================================================================

\* nothing under study: the state of the call variables in the service models
InitCall ==
  /\ arg = << >>
  /\ called = FALSE
  /\ result = << >>

\* ---- EpochSubmitter.buildViralPairs ----

\* (mutation) every rank given three pairs
MaxPairsFlat == <<3, 3, 3>>

\* `const maxPairsPerRank = [3, 2, 1]`
MaxPairsPerRank == <<3, 2, 1>>

\* the inner loop: `i < Math.min(ranking.binSteps.length, pairsToAdd)`
PairsOfRank(ranking, rank) ==
  [i \in 1..Min2(Len(ranking.binSteps), MaxPairsPerRank[rank]) |->
     [tokenX |-> ranking.tokenAddress, tokenY |-> ranking.quoteTokenAddress,
      binStep |-> ranking.binSteps[i], rank |-> rank]]

\* the outer loop: `rankIdx < Math.min(rankings.length, 3)`, rank = rankIdx + 1
RECURSIVE PairsFromRank(_, _)
PairsFromRank(rankings, rank) ==
  IF rank > Min2(Len(rankings), 3) THEN << >>
  ELSE PairsOfRank(rankings[rank], rank) \o PairsFromRank(rankings, rank + 1)

BuildViralPairs(rankings) == PairsFromRank(rankings, 1)

\* a token's bin steps, highest locked value first
BinStepLists == {[i \in 1..k |-> 5 * (MaxPools + 1 - i)] : k \in 0..MaxPools}

TokenRankings ==
  [tokenAddress : {"A", "B"}, quoteTokenAddress : {"W"}, score : {1}, binSteps : BinStepLists]

RankingLists == UNION {[1..n -> TokenRankings] : n \in 0..MaxRanked}

ApplyBuildViralPairs ==
  /\ ~called
  /\ called' = TRUE
  /\ result' = BuildViralPairs(arg)
  /\ UNCHANGED <<arg, snapVars, signerVars, merkleVars, epochVars>>

\* ---- findTokenScore (scheduler.ts) ----

\* strings are sequences of letters; "a" is a lower-case letter
Letters == {"A", "B", "a"}
UpperLetters == {"A", "B"}

StringsOver(alphabet) == UNION {[1..n -> alphabet] : n \in 1..MaxNameLen}

\* String.prototype.toUpperCase
ToUpperCase(str) == [i \in 1..Len(str) |-> IF str[i] = "a" THEN "A" ELSE str[i]]

\* String.prototype.includes: `part` occurs in `str` as a contiguous run
Includes(str, part) ==
  \E off \in 0..(Len(str) - Len(part)) : \A i \in 1..Len(part) : str[off + i] = part[i]

\* a Map<string, number> in insertion order: a sequence of entries with distinct keys
HasKey(scoreMap, key) == \E i \in 1..Len(scoreMap) : scoreMap[i].key = key

\* Map.prototype.get for a key the map holds
ScoreAt(scoreMap, key) == scoreMap[CHOOSE i \in 1..Len(scoreMap) : scoreMap[i].key = key].score

\* `const s = scoreMap.get(key); if (s && s > 0)`: the entry exists and is positive
PositiveAt(scoreMap, key) == HasKey(scoreMap, key) /\ ScoreAt(scoreMap, key) > 0

\* the loop's test of one entry: `score <= 0` skips it, then
\* `upperKey === name || name.includes(upperKey) || upperKey.includes(name)`
PartialMatch(entry, name) ==
  LET upperKey == ToUpperCase(entry.key)
  IN  /\ entry.score > 0
      /\ (upperKey = name \/ Includes(name, upperKey) \/ Includes(upperKey, name))

FindTokenScore(tokenData, scoreMap) ==
  LET symbol == ToUpperCase(tokenData.tokenSymbol)
      name == ToUpperCase(tokenData.tokenName)
      hits == {i \in 1..Len(scoreMap) : PartialMatch(scoreMap[i], name)}
  IN  IF PositiveAt(scoreMap, symbol)
        THEN [score |-> ScoreAt(scoreMap, symbol), matchedBy |-> "symbol", key |-> symbol]
      ELSE IF PositiveAt(scoreMap, name)
        THEN [score |-> ScoreAt(scoreMap, name), matchedBy |-> "name", key |-> name]
      ELSE IF hits # {}
        THEN LET first == CHOOSE i \in hits : \A j \in hits : i <= j
             IN  [score |-> scoreMap[first].score, matchedBy |-> "name-partial",
                  key |-> scoreMap[first].key]
      ELSE [score |-> 0, matchedBy |-> "none", key |-> << >>]

\* the score keys are upper case (memex-collector normalises the symbols, the
\* snapshot path upper-cases them); scores may be 0
ScoreEntries == [key : StringsOver(UpperLetters), score : {0, 5, 9}]

ScoreMaps ==
  {m \in UNION {[1..n -> ScoreEntries] : n \in 0..MaxEntries} :
     \A i, j \in 1..Len(m) : i # j => m[i].key # m[j].key}

MatchInputs ==
  [tokenData : [tokenSymbol : StringsOver(Letters), tokenName : StringsOver(Letters)],
   scoreMap : ScoreMaps]

ApplyFindTokenScore ==
  /\ ~called
  /\ called' = TRUE
  /\ result' = FindTokenScore(arg.tokenData, arg.scoreMap)
  /\ UNCHANGED <<arg, snapVars, signerVars, merkleVars, epochVars>>

\* ---- getMemeTokensWithPools (graphql-client.ts), buildTokenRankings ----

\* Array.prototype.sort((a, b) => b[f] - a[f]): descending by field f, stable
RECURSIVE InsertDesc(_, _, _)
InsertDesc(sorted, x, f) ==
  IF sorted = << >> THEN <<x>>
  ELSE IF Head(sorted)[f] >= x[f] THEN <<Head(sorted)>> \o InsertDesc(Tail(sorted), x, f)
  ELSE <<x>> \o sorted

RECURSIVE SortDesc(_, _)
SortDesc(seq, f) ==
  IF seq = << >> THEN << >>
  ELSE InsertDesc(SortDesc(SubSeq(seq, 1, Len(seq) - 1), f), seq[Len(seq)], f)

\* GraphQLClient.quoteTokenAddress, and some other token that is not the quote
QuoteToken == [address |-> "W", symbol |-> <<"W">>, name |-> <<"W">>]
OtherToken == [address |-> "Z", symbol |-> <<"Z">>, name |-> <<"Z">>]

TokenSeq == SubSeq(<<"A", "B", "C", "D", "E", "F", "G">>, 1, MaxTokens)

\* what the indexer and the score cache hold about each token: one pair, against
\* the quote token or against another token, its locked value, and the token's score
TokenFacts ==
  {f \in [pool : {"quote", "other"}, tvl : {0, 1, 2}, score : {0, 1, 2}] :
     f.pool = "other" => f.tvl = 1}

RankInputs == [1..MaxTokens -> TokenFacts]

\* fetchAllPairs: the LBPair rows, `order_by: {totalValueLockedUSD: desc}`; the
\* meme token is tokenX of its pair or tokenY
FetchAllPairs(facts) ==
  LET meme(i) == [address |-> TokenSeq[i], symbol |-> <<TokenSeq[i]>>, name |-> <<TokenSeq[i]>>]
      peer(i) == IF facts[i].pool = "quote" THEN QuoteToken ELSE OtherToken
      row(i) == [tokenX |-> IF i % 2 = 1 THEN meme(i) ELSE peer(i),
                 tokenY |-> IF i % 2 = 1 THEN peer(i) ELSE meme(i),
                 tvl |-> facts[i].tvl, binStep |-> 10 + i]
  IN  SortDesc([i \in 1..MaxTokens |-> row(i)], "tvl")

\* the loop of getMemeTokensWithPools over the pairs, `acc` being tokenMap in
\* insertion order
RECURSIVE GroupByToken(_, _)
GroupByToken(pairs, acc) ==
  IF pairs = << >> THEN acc
  ELSE
    LET pair == Head(pairs)
        rest == Tail(pairs)
    IN  IF pair.tvl <= 0 THEN GroupByToken(rest, acc)
        ELSE IF pair.tokenX.address # QuoteToken.address /\ pair.tokenY.address # QuoteToken.address
          THEN GroupByToken(rest, acc)
        ELSE
          LET memeToken == IF pair.tokenX.address = QuoteToken.address THEN pair.tokenY ELSE pair.tokenX
              quoteToken == IF pair.tokenX.address = QuoteToken.address THEN pair.tokenX ELSE pair.tokenY
              pool == [binStep |-> pair.binStep, tvlUSD |-> pair.tvl]
              at == {i \in 1..Len(acc) : acc[i].tokenAddress = memeToken.address}
          IN  IF at # {}
                THEN LET i == CHOOSE j \in at : TRUE
                     IN  GroupByToken(rest, [acc EXCEPT ![i].pools = Append(@, pool),
                                                        ![i].totalTvlUSD = @ + pair.tvl])
                ELSE GroupByToken(rest, Append(acc,
                       [tokenAddress |-> memeToken.address, tokenSymbol |-> memeToken.symbol,
                        tokenName |-> memeToken.name, quoteTokenAddress |-> quoteToken.address,
                        pools |-> <<pool>>, totalTvlUSD |-> pair.tvl]))

\* getMemeTokensWithPools: group, sort each token's pools by locked value, sort
\* the tokens by total locked value
GetMemeTokensWithPools(pairs) ==
  LET grouped == GroupByToken(pairs, << >>)
  IN  SortDesc([i \in 1..Len(grouped) |->
                  [grouped[i] EXCEPT !.pools = SortDesc(@, "tvlUSD")]], "totalTvlUSD")

\* the rankings pushed by the loop of buildTokenRankings: the tokens whose matched
\* score is positive, in the liquidity source's order
MatchedRankings(memeTokensWithPools, scoreMap) ==
  LET scored == SelectSeq(memeTokensWithPools,
                          LAMBDA t : FindTokenScore(t, scoreMap).score > 0)
  IN  [i \in 1..Len(scored) |->
         [tokenAddress |-> scored[i].tokenAddress,
          quoteTokenAddress |-> scored[i].quoteTokenAddress,
          score |-> FindTokenScore(scored[i], scoreMap).score,
          binSteps |-> [k \in 1..Len(scored[i].pools) |-> scored[i].pools[k].binStep]]]

\* (mutation) the rankings returned without `rankings.sort(...)`
BuildTokenRankingsUnsorted(memeTokensWithPools, scoreMap) ==
  MatchedRankings(memeTokensWithPools, scoreMap)

\* buildTokenRankings: `rankings.sort((a, b) => b.score - a.score)`
BuildTokenRankings(memeTokensWithPools, scoreMap) ==
  SortDesc(MatchedRankings(memeTokensWithPools, scoreMap), "score")

\* processEpochSubmission: `rankings.slice(0, 3)`
TopThree(rankings) == SubSeq(rankings, 1, Min2(Len(rankings), 3))

\* the score map of the facts: one entry per token, keyed by its symbol
ScoreMapOf(facts) == [i \in 1..MaxTokens |-> [key |-> <<TokenSeq[i]>>, score |-> facts[i].score]]

ApplyBuildTokenRankings ==
  /\ ~called
  /\ called' = TRUE
  /\ result' = TopThree(BuildTokenRankings(GetMemeTokensWithPools(FetchAllPairs(arg)),
                                            ScoreMapOf(arg)))
  /\ UNCHANGED <<arg, snapVars, signerVars, merkleVars, epochVars>>

\* ---- ScoreCalculator (score-calculator.ts) ----

\* The calculator's numbers are kept as exact fractions num/den, den > 0, in lowest
\* terms; an age is a whole number of hours.
RECURSIVE GCD(_, _)
GCD(a, b) == IF b = 0 THEN a ELSE GCD(b, a % b)

Abs(x) == IF x < 0 THEN -x ELSE x

Frac(n, d) ==
  LET g == GCD(Abs(n), d)
  IN  [num |-> n \div g, den |-> d \div g]

Whole(n) == [num |-> n, den |-> 1]

Plus(x, y) == Frac(x.num * y.den + y.num * x.den, x.den * y.den)

Minus(x, y) == Frac(x.num * y.den - y.num * x.den, x.den * y.den)

\* common factors are cancelled crosswise before the products are taken
Times(x, y) ==
  LET g1 == GCD(Abs(x.num), y.den)
      g2 == GCD(Abs(y.num), x.den)
  IN  Frac((x.num \div g1) * (y.num \div g2), (x.den \div g2) * (y.den \div g1))

\* x / y for y # 0
Over(x, y) ==
  IF y.num < 0 THEN Times(x, [num |-> -y.den, den |-> -y.num])
  ELSE Times(x, [num |-> y.den, den |-> y.num])

Less(x, y) == x.num * y.den < y.num * x.den

MinFrac(x, y) == IF Less(y, x) THEN y ELSE x

\* `DEFAULT_WEIGHTS`
DEFAULT_WEIGHTS ==
  [posts |-> 100, views |-> 1, likes |-> 20, reposts |-> 50, replies |-> 30,
   uniqueUsers |-> 200]

\* `DEFAULT_MULTIPLIERS`: 1.5, 1.2, 1.1
DEFAULT_MULTIPLIERS ==
  [graduatedTokenBonus |-> Frac(3, 2), imagePostBonus |-> Frac(6, 5),
   priceVolatilityBonus |-> Frac(11, 10)]

MAX_SCORE == 10000
MIN_SCORE == 0
SCORE_NORMALIZER == 10000
TIME_DECAY_HALF_LIFE_HOURS == 24
MAX_AGE_HOURS == 168
\* 0.3, 0.5, 1.0
GRADUATED_THRESHOLD == Frac(3, 10)
IMAGE_THRESHOLD == Frac(1, 2)
VOLATILITY_THRESHOLD == Whole(1)

\* calculateRawScore: the weighted sum of the counts, whatever their sign
CalculateRawScore(metrics) ==
  metrics.posts * DEFAULT_WEIGHTS.posts
  + metrics.views * DEFAULT_WEIGHTS.views
  + metrics.likes * DEFAULT_WEIGHTS.likes
  + metrics.reposts * DEFAULT_WEIGHTS.reposts
  + metrics.replies * DEFAULT_WEIGHTS.replies
  + metrics.uniqueUserCount * DEFAULT_WEIGHTS.uniqueUsers

\* calculateEnhancedMultiplier: the product of the bonuses whose threshold is met
CalculateEnhancedMultiplier(metrics) ==
  LET graduated ==
        IF ~Less(metrics.graduatedPostRatio, GRADUATED_THRESHOLD)
        THEN Plus(Whole(1),
                  Times(Minus(DEFAULT_MULTIPLIERS.graduatedTokenBonus, Whole(1)),
                        MinFrac(Over(metrics.graduatedPostRatio, Frac(1, 2)), Whole(1))))
        ELSE Whole(1)
      image ==
        IF ~Less(metrics.imagePostRatio, IMAGE_THRESHOLD)
        THEN Plus(Whole(1),
                  Times(Minus(DEFAULT_MULTIPLIERS.imagePostBonus, Whole(1)),
                        MinFrac(metrics.imagePostRatio, Whole(1))))
        ELSE Whole(1)
      volatility ==
        IF ~Less(metrics.avgPriceFluctuation, VOLATILITY_THRESHOLD)
        THEN Plus(Whole(1),
                  Times(Minus(DEFAULT_MULTIPLIERS.priceVolatilityBonus, Whole(1)),
                        MinFrac(Over(metrics.avgPriceFluctuation, Whole(5)), Whole(1))))
        ELSE Whole(1)
  IN  Times(Times(graduated, image), volatility)

\* (mutation) the cut-off reached at MAX_AGE_HOURS itself
CalculateTimeDecayInclusive(ageHours) ==
  IF ageHours >= MAX_AGE_HOURS THEN Whole(0)
  ELSE Frac(1, 2 ^ (ageHours \div TIME_DECAY_HALF_LIFE_HOURS))

\* calculateTimeDecay, on the age `(now - postTime) / 3600000`:
\* exp(-ageHours * LN2 / 24) is 1 / 2^(ageHours / 24), a fraction at the whole
\* numbers of half-lives, which are the ages up to MAX_AGE_HOURS drawn here
CalculateTimeDecay(ageHours) ==
  IF ageHours > MAX_AGE_HOURS THEN Whole(0)
  ELSE Frac(1, 2 ^ (ageHours \div TIME_DECAY_HALF_LIFE_HOURS))

\* (mutation) the thresholds of the penalties met with equality
ApplyAntiGamingLoose(metrics, rawScore) ==
  LET low ==
        /\ metrics.views >= 1000
        /\ ~Less(Frac(1, 1000),
                 Frac(metrics.likes + metrics.reposts + metrics.replies, metrics.views))
      p1 == IF low THEN Frac(3, 10) ELSE Whole(0)
      p2 == IF metrics.posts >= 10 /\ metrics.uniqueUserCount <= 3
            THEN Plus(p1, Frac(2, 10)) ELSE p1
      penalty == IF metrics.posts >= 50 THEN Plus(p2, Frac(1, 10)) ELSE p2
  IN  [score |-> Times(rawScore, Minus(Whole(1), MinFrac(penalty, Frac(1, 2)))),
       penalty |-> penalty]

\* applyAntiGaming: `{ score: rawScore * (1 - Math.min(penalty, 0.5)), penalty }`
ApplyAntiGaming(metrics, rawScore) ==
  LET low ==
        /\ metrics.views > 1000
        /\ Less(Frac(metrics.likes + metrics.reposts + metrics.replies, metrics.views),
                Frac(1, 1000))
      p1 == IF low THEN Frac(3, 10) ELSE Whole(0)
      p2 == IF metrics.posts > 10 /\ metrics.uniqueUserCount < 3
            THEN Plus(p1, Frac(2, 10)) ELSE p1
      penalty == IF metrics.posts > 50 THEN Plus(p2, Frac(1, 10)) ELSE p2
  IN  [score |-> Times(rawScore, Minus(Whole(1), MinFrac(penalty, Frac(1, 2)))),
       penalty |-> penalty]

\* k * r = q * m + rem with 0 <= rem < m, for 0 <= r < m, by doubling
RECURSIVE MulDivMod(_, _, _)
MulDivMod(k, r, m) ==
  IF k = 0 THEN [q |-> 0, rem |-> 0]
  ELSE LET h == MulDivMod(k \div 2, r, m)
           t == 2 * h.rem + (k % 2) * r
       IN  [q |-> 2 * h.q + t \div m, rem |-> t % m]

\* Math.round(k * x) for a fraction 0 < x < 1: halves go up
RoundScaled(k, x) ==
  LET d == MulDivMod(k, x.num, x.den)
  IN  IF 2 * d.rem >= x.den THEN d.q + 1 ELSE d.q

\* (mutation) the score rounded as it stands, neither squashed nor clamped
NormalizeScoreUnbounded(rawScore) ==
  (2 * rawScore.num + rawScore.den) \div (2 * rawScore.den)

\* normalizeScore: Math.round(Math.min(MAX_SCORE, Math.max(MIN_SCORE,
\* rawScore / (rawScore + SCORE_NORMALIZER) * MAX_SCORE))); a division by zero
\* (rawScore = -SCORE_NORMALIZER) gives -Infinity, which the clamp turns into
\* MIN_SCORE
NormalizeScore(rawScore) ==
  LET sum == Plus(rawScore, Whole(SCORE_NORMALIZER))
      ratio == Over(rawScore, sum)
  IN  IF sum.num = 0 THEN MIN_SCORE
      ELSE IF ratio.num <= 0 THEN MIN_SCORE
      ELSE IF ratio.num >= ratio.den THEN MAX_SCORE
      ELSE RoundScaled(MAX_SCORE, ratio)

\* calculate: raw score, time decay, anti-gaming, multipliers, normalisation
Calculate(metrics) ==
  LET rawScore == Times(Whole(CalculateRawScore(metrics)),
                        CalculateTimeDecay(metrics.ageHours))
      adjustedScore == ApplyAntiGaming(metrics, rawScore).score
      enhancedScore == Times(adjustedScore, CalculateEnhancedMultiplier(metrics))
  IN  NormalizeScore(enhancedScore)

\* Map.prototype.set: an existing key keeps its place and takes the new value
MapSet(map, key, score) ==
  IF \E i \in 1..Len(map) : map[i].key = key
  THEN [i \in 1..Len(map) |->
          IF map[i].key = key THEN [key |-> key, score |-> score] ELSE map[i]]
  ELSE Append(map, [key |-> key, score |-> score])

\* calculateBatch: every element of the array is scored and set in the map
RECURSIVE CalculateBatch(_)
CalculateBatch(metricsArray) ==
  IF metricsArray = << >> THEN << >>
  ELSE LET n == Len(metricsArray)
           last == metricsArray[n]
       IN  MapSet(CalculateBatch(SubSeq(metricsArray, 1, n - 1)),
                  last.tokenSymbol, Calculate(last))

\* the metrics of one token as collectAndAggregate() hands them over
PostCounts == {-1, 0, 10, 11, 51}
ViewCounts == {0, 1000, 1001, 10000}
LikeCounts == {0, 5, 10}
RepostCounts == {0, 5}
UserCounts == {-1, 2, 3}
AgesInHours == {0, 24, 168, 169}
GraduatedRatios == {Whole(0), Whole(1)}
ImageRatios == {Whole(0), Whole(1)}
PriceFluctuations == {Whole(0), Whole(5)}

MetricsInputs ==
  [tokenSymbol : {"T"}, posts : PostCounts, views : ViewCounts, likes : LikeCounts,
   reposts : RepostCounts, replies : {0}, uniqueUserCount : UserCounts,
   ageHours : AgesInHours, graduatedPostRatio : GraduatedRatios,
   imagePostRatio : ImageRatios, avgPriceFluctuation : PriceFluctuations]

\* processScoreCollection with one token's metrics collected and an empty
\* latestTokenScores: the result is latestTokenScores afterwards
ProcessScoreCollection ==
  /\ ~called
  /\ called' = TRUE
  /\ result' = CalculateBatch(<<arg>>)
  /\ UNCHANGED <<arg, snapVars, signerVars, merkleVars, epochVars>>

\* applyAntiGaming on the undecayed raw score of the metrics
ApplyApplyAntiGaming ==
  /\ ~called
  /\ called' = TRUE
  /\ result' = ApplyAntiGaming(arg, Whole(CalculateRawScore(arg)))
  /\ UNCHANGED <<arg, snapVars, signerVars, merkleVars, epochVars>>

\* ---- ScoreCalculator.getScoreTier, calculatePairScore ----

\* (mutation) a tier reached only above its lower limit
GetScoreTierAbove(score) ==
  IF score > 8000 THEN "LEGENDARY"
  ELSE IF score > 6000 THEN "VIRAL"
  ELSE IF score > 4000 THEN "HOT"
  ELSE IF score > 2000 THEN "WARM"
  ELSE IF score > 500 THEN "ACTIVE"
  ELSE "COLD"

\* getScoreTier
GetScoreTier(score) ==
  IF score >= 8000 THEN "LEGENDARY"
  ELSE IF score >= 6000 THEN "VIRAL"
  ELSE IF score >= 4000 THEN "HOT"
  ELSE IF score >= 2000 THEN "WARM"
  ELSE IF score >= 500 THEN "ACTIVE"
  ELSE "COLD"

\* (mutation) the average truncated instead of rounded
CalculatePairScoreFloor(tokenXScore, tokenYScore) ==
  Min2(MAX_SCORE, Max({MIN_SCORE, (tokenXScore + tokenYScore) \div 2}))

\* calculatePairScore: Math.round((x + y) / 2), halves going up, then the clamp
CalculatePairScore(tokenXScore, tokenYScore) ==
  LET avgScore == (tokenXScore + tokenYScore + 1) \div 2
  IN  Min2(MAX_SCORE, Max({MIN_SCORE, avgScore}))

\* token scores at and next to the ends of the range and the tier limits
TokenScoreValues ==
  {0, 1, 2, 499, 500, 1999, 2000, 3999, 4000, 4001, 5999, 6000, 7999, 8000,
   9999, 10000}

PairScoreInputs == [tokenXScore : TokenScoreValues, tokenYScore : TokenScoreValues]

\* the pair score of two token scores and the tier reported for it
ApplyCalculatePairScore ==
  /\ ~called
  /\ called' = TRUE
  /\ LET pairScore == CalculatePairScore(arg.tokenXScore, arg.tokenYScore)
     IN  result' = [pairScore |-> pairScore, tier |-> GetScoreTier(pairScore)]
  /\ UNCHANGED <<arg, snapVars, signerVars, merkleVars, epochVars>>

\* ---- ScoreSigner.generatePairPoolId (signer.ts) ----

\* the UTF-16 code unit of a letter
CodeUnit(c) == IF c = "A" THEN 65 ELSE IF c = "B" THEN 66 ELSE 97

\* the default comparison of Array.prototype.sort on strings: code unit by code
\* unit, a proper prefix first
StringBefore(x, y) ==
  \/ Len(x) < Len(y) /\ \A i \in 1..Len(x) : x[i] = y[i]
  \/ \E k \in 1..Min2(Len(x), Len(y)) :
       /\ \A i \in 1..(k - 1) : x[i] = y[i]
       /\ CodeUnit(x[k]) < CodeUnit(y[k])

\* `[x, y].sort()`
SortTwo(x, y) == IF StringBefore(y, x) THEN <<y, x>> ELSE <<x, y>>

\* encodePacked(['string', 'string'], [x, y]): the bytes of x followed by those of
\* y, without lengths or a separator
EncodePacked(x, y) == x \o y

\* keccak256 of a byte string (no two byte strings of the model collide)
Keccak256(bytes) == [keccak256 |-> bytes]

\* (mutation) the symbols packed in the order given
GeneratePairPoolIdUnsorted(tokenX, tokenY) ==
  Keccak256(EncodePacked(ToUpperCase(tokenX), ToUpperCase(tokenY)))

\* generatePairPoolId
GeneratePairPoolId(tokenX, tokenY) ==
  LET sorted == SortTwo(ToUpperCase(tokenX), ToUpperCase(tokenY))
  IN  Keccak256(EncodePacked(sorted[1], sorted[2]))

SymbolPairs == [tokenX : StringsOver(Letters), tokenY : StringsOver(Letters)]

ApplyGeneratePairPoolId ==
  /\ ~called
  /\ called' = TRUE
  /\ result' = GeneratePairPoolId(arg.tokenX, arg.tokenY)
  /\ UNCHANGED <<arg, snapVars, signerVars, merkleVars, epochVars>>

\* ---- MerkleBuilder: checkpoints with their tree data, proofs ----

\* BigInt.prototype.toString: the decimal digits of a non-negative integer
RECURSIVE ToDecimalString(_)
ToDecimalString(n) ==
  IF n < 10 THEN <<n>> ELSE Append(ToDecimalString(n \div 10), n % 10)

\* BigInt(str) for a string of decimal digits
RECURSIVE ParseBigInt(_)
ParseBigInt(str) ==
  IF str = << >> THEN 0
  ELSE ParseBigInt(SubSeq(str, 1, Len(str) - 1)) * 10 + str[Len(str)]

\* standardLeafHash: keccak256(keccak256(abi.encode(poolId, score, epoch))); no two
\* leaves of the model collide, and no leaf collides with an inner node
StandardLeafHash(leaf) == [leaf |-> leaf]

\* hashPair: keccak256 of the two hashes in ascending order, hence of the
\* unordered pair
HashPair(a, b) == [node |-> {a, b}]

\* the place of a leaf hash in compareBytes order: some fixed total order of the
\* leaves, unrelated to the order in which the scores are handed over
HashKey(leaf) ==
  (IF leaf[1] = "P" THEN 2 ELSE 1) + 3 * (IF leaf[2] = 5 THEN 1 ELSE 0) + 6 * leaf[3]

\* StandardMerkleTree.of: the hashed values sorted by hash (ascending, stable)
SortedHashedValues(leaves) ==
  SortDesc([i \in 1..Len(leaves) |->
              [valueIndex |-> i, hash |-> StandardLeafHash(leaves[i]),
               key |-> -HashKey(leaves[i])]],
           "key")

\* makeMerkleTree: node i of the array of 2n - 1 hashes (from 0); the sorted
\* leaves fill it from the end backwards, node i hashes its children 2i+1, 2i+2
RECURSIVE TreeNode(_, _)
TreeNode(hashes, i) ==
  LET n == Len(hashes)
  IN  IF i >= n - 1 THEN hashes[(2 * n - 2 - i) + 1]
      ELSE HashPair(TreeNode(hashes, 2 * i + 1), TreeNode(hashes, 2 * i + 2))

\* getProof(tree, index): the siblings on the way from the node up to the root
RECURSIVE TreeProof(_, _)
TreeProof(hashes, index) ==
  IF index = 0 THEN << >>
  ELSE LET sibling == IF index % 2 = 1 THEN index + 1 ELSE index - 1
       IN  <<TreeNode(hashes, sibling)>> \o TreeProof(hashes, (index - 1) \div 2)

\* processProof: `proof.reduce(hashPair, leaf)`
RECURSIVE ProcessProof(_, _)
ProcessProof(hash, proof) ==
  IF proof = << >> THEN hash
  ELSE ProcessProof(HashPair(hash, Head(proof)), Tail(proof))

\* StandardMerkleTree.of(leaves, ...): the root, and for each value (in the order
\* given) the index of its node in the tree
StandardMerkleTreeOf(leaves) ==
  LET hashed == SortedHashedValues(leaves)
      hashes == [k \in 1..Len(hashed) |-> hashed[k].hash]
      size == 2 * Len(leaves) - 1
  IN  [hashes |-> hashes,
       root |-> TreeNode(hashes, 0),
       treeIndex |-> [i \in 1..Len(leaves) |->
                        size - (CHOOSE k \in 1..Len(hashed) : hashed[k].valueIndex = i)]]

\* buildTree's leaves `[data.poolId, BigInt(data.score), epochBigInt]`
LeavesOf(scores, epoch) ==
  [i \in 1..Len(scores) |-> <<scores[i].poolId, scores[i].score, epoch>>]

\* saveCheckpoint's row: treeData is the JSON text of the leaves, the score and
\* the epoch of each written in decimal, and of the root
CheckpointRow(root, epoch, poolCount, leaves) ==
  [root |-> root, epoch |-> epoch, poolCount |-> poolCount,
   treeData |-> [leaves |-> [i \in 1..Len(leaves) |->
                               [poolId |-> leaves[i][1],
                                score |-> ToDecimalString(leaves[i][2]),
                                epoch |-> ToDecimalString(leaves[i][3])]],
                 root |-> root]]

\* `return null`
NoProof == [found |-> FALSE]

\* the epoch argument of getProofFromCheckpoint: undefined, NaN (parseInt of a
\* text that is no number) or a number; `epoch ? ... : ...` takes a number other
\* than 0 as given
NoEpoch == [kind |-> "undefined", value |-> 0]
NaNEpoch == [kind |-> "NaN", value |-> 0]
EpochNumber(n) == [kind |-> "number", value |-> n]
Truthy(epoch) == epoch.kind = "number" /\ epoch.value # 0

\* the row getProofFromCheckpoint reads: findFirst where epoch = the argument, or
\* findFirst ordered by epoch descending (the set is empty or holds one index)
FindCheckpoint(rows, epoch) ==
  IF Truthy(epoch)
  THEN {i \in 1..Len(rows) : rows[i].epoch = epoch.value}
  ELSE {i \in 1..Len(rows) : \A j \in 1..Len(rows) : rows[j].epoch <= rows[i].epoch}

\* getProofFromCheckpoint: the leaves are parsed back, the tree is rebuilt, and
\* the proof of the first value with that poolId is returned
GetProofFromCheckpoint(rows, poolId, epoch) ==
  LET found == FindCheckpoint(rows, epoch)
  IN  IF found = {} THEN NoProof
      ELSE LET checkpoint == rows[CHOOSE i \in found : TRUE]
               stored == checkpoint.treeData.leaves
               leaves == [i \in 1..Len(stored) |->
                            <<stored[i].poolId, ParseBigInt(stored[i].score),
                              ParseBigInt(stored[i].epoch)>>]
               tree == StandardMerkleTreeOf(leaves)
               hits == {i \in 1..Len(leaves) : leaves[i][1] = poolId}
           IN  IF hits = {} THEN NoProof
               ELSE LET index == CHOOSE i \in hits : \A j \in hits : i <= j
                    IN  [found |-> TRUE, poolId |-> poolId, score |-> leaves[index][2],
                         epoch |-> checkpoint.epoch,
                         proof |-> TreeProof(tree.hashes, tree.treeIndex[index]),
                         root |-> tree.root]

\* (mutation) a verification that looks at the proof path and not at the leaf
VerifyProofPathOnly(proof) ==
  \E leaf \in {<<id, score, proof.epoch>> : id \in Pools, score \in {5, 10}} :
    ProcessProof(StandardLeafHash(leaf), proof.proof) = proof.root

\* verifyProof: StandardMerkleTree.verify(proof.root, ..., leaf, proof.proof)
VerifyProof(proof) ==
  ProcessProof(StandardLeafHash(<<proof.poolId, proof.score, proof.epoch>>), proof.proof)
    = proof.root

\* the score of the i-th entry of a score map handed to buildTree
ScoreOfEntry(i) == IF i % 2 = 1 THEN 5 ELSE 10

\* the score maps handed to buildTree, in iteration order: one to MaxLeaves
\* entries, two of which may carry the same poolId
ScoreLists ==
  UNION {{[i \in 1..n |-> [poolId |-> ids[i], score |-> ScoreOfEntry(i)]] :
            ids \in [1..n -> Pools]} : n \in 1..MaxLeaves}

ProofQueries ==
  [poolId : Pools \cup {"R"},
   epoch : {NoEpoch, NaNEpoch} \cup {EpochNumber(n) : n \in 0..(MaxCheckpoints + 1)}]

\* a buildTree call that runs alone on a score map that is not empty, from
\* getCurrentEpoch to the insert of saveCheckpoint
BuildCheckpoint(scores) ==
  /\ ~called
  /\ Len(checkpoints) < MaxCheckpoints
  /\ LET epoch == GetCurrentEpoch(checkpoints)
         leaves == LeavesOf(scores, epoch)
         tree == StandardMerkleTreeOf(leaves)
     IN  /\ CheckpointInsertAccepted(checkpoints, epoch)
         /\ checkpoints' = Append(checkpoints,
                                  CheckpointRow(tree.root, epoch, Len(leaves), leaves))
         /\ mbEpoch' = epoch
         /\ mbTree' = epoch
         /\ buildsOk' = buildsOk + 1
  /\ UNCHANGED <<breq, buildStarts, signerVars, epochVars, auxVars>>

\* getProofFromCheckpoint(arg.poolId, arg.epoch) over the persisted checkpoints
ProofQuery ==
  /\ ~called
  /\ called' = TRUE
  /\ result' = GetProofFromCheckpoint(checkpoints, arg.poolId, arg.epoch)
  /\ UNCHANGED <<arg, snapVars, signerVars, merkleVars, epochVars>>

NextProof ==
  \/ \E scores \in ScoreLists : BuildCheckpoint(scores)
  \/ ProofQuery

\* ---- processHourlySnapshot over table token_score_snapshots ----

SnapSymbols == {"T", "U"}
SnapScores == {1, 2}

\* processScoreCollection's loop `latestTokenScores.set(tokenSymbol, score)` for
\* one token of a collection
ScoreCollected(symbol, score) ==
  /\ tokenScores' = MapSet(tokenScores, symbol, score)
  /\ UNCHANGED <<wallHour, snapshots, picked, snapRows, hrun, upserted, snapStarts,
                 collectVars,
                 signerVars, merkleVars, epochVars, callVars, otherVars>>

\* (mutation) an insert that leaves the row of the key as it is
UpsertRowKeepFirst(rows, row) ==
  IF \E x \in rows : x.tokenSymbol = row.tokenSymbol /\ x.snapshotHour = row.snapshotHour
  THEN rows ELSE rows \cup {row}

\* insert(...).onConflictDoUpdate({target: [tokenSymbol, snapshotHour], set: {score,
\* ...}}) under the unique index token_score_snapshots_token_hour_idx
UpsertRow(rows, row) ==
  {x \in rows : ~(x.tokenSymbol = row.tokenSymbol /\ x.snapshotHour = row.snapshotHour)}
    \cup {row}

\* processHourlySnapshot up to its first await: with scores in memory (without,
\* it returns at once) the snapshots of all tokens are built for the current hour.
\* The cron expression fires it once an hour; a second firing within an hour
\* (the clock set back) comes after the run of that hour has ended.
SnapshotStart(r) ==
  /\ hrun[r].pc = "idle"
  /\ snapStarts < MaxSnapRuns
  /\ tokenScores # << >>
  /\ \A q \in 1..MaxSnapSlots : hrun[q].pc = "write" => hrun[q].hour # wallHour
  /\ snapStarts' = snapStarts + 1
  /\ hrun' = [hrun EXCEPT ![r] =
                [pc |-> "write", no |-> snapStarts + 1, hour |-> wallHour,
                 pending |-> [i \in 1..Len(tokenScores) |->
                                [tokenSymbol |-> tokenScores[i].key,
                                 snapshotHour |-> wallHour,
                                 score |-> tokenScores[i].score]]]]
  /\ UNCHANGED <<wallHour, snapshots, picked, tokenScores, snapRows, upserted,
                 collectVars,
                 signerVars, merkleVars, epochVars, callVars, otherVars>>

\* one awaited upsert of the loop settles: the row is written and the loop goes
\* on, or the store rejects and the catch ends the run
SnapshotUpsert(r) ==
  /\ hrun[r].pc = "write"
  /\ LET snapshot == Head(hrun[r].pending)
         rest == Tail(hrun[r].pending)
     IN  \/ /\ snapRows' = UpsertRow(snapRows, snapshot)
            /\ upserted' = upserted \cup
                 {[tokenSymbol |-> snapshot.tokenSymbol, snapshotHour |-> snapshot.snapshotHour,
                   score |-> snapshot.score, no |-> hrun[r].no]}
            /\ hrun' = [hrun EXCEPT ![r] =
                          IF rest = << >> THEN IdleSnap ELSE [@ EXCEPT !.pending = rest]]
         \/ /\ hrun' = [hrun EXCEPT ![r] = IdleSnap]
            /\ UNCHANGED <<snapRows, upserted>>
  /\ UNCHANGED <<wallHour, snapshots, picked, tokenScores, snapStarts,
                 collectVars,
                 signerVars, merkleVars, epochVars, callVars, otherVars>>

NextHourly ==
  \/ WallClockTick
  \/ \E symbol \in SnapSymbols, score \in SnapScores : ScoreCollected(symbol, score)
  \/ \E r \in 1..MaxSnapSlots : SnapshotStart(r)
  \/ \E r \in 1..MaxSnapSlots : SnapshotUpsert(r)

\* ==========================================================================
\* MemexCollector: post store, aggregation and the three collection tasks
\* ==========================================================================

\* aggregateFromDB and initialBackfill: `setDate(getDate() - 7)`
WINDOW_DAYS == 7

CollectSlots == 1..MaxCollectSlots

\* the source feed: post i of FeedSize, the highest id the newest; ageDays is
\* the age of the post on day 0, the age on a later day is ageDays + today
SourcePost(i) ==
  [id |-> i, userId |-> 10 + (i % 2),
   tokens |-> IF i % 2 = 1 THEN <<"T">> ELSE <<"T", "U">>,
   viewCount |-> 10 * i, likeCount |-> i, repostCount |-> 1, replyCount |-> 0,
   bondingCurveProgress |-> IF i % 2 = 0 THEN 100 ELSE 50,
   priceFluctuationRange |-> 0, hasImage |-> (i % 2 = 1),
   ageDays |-> 4 * (FeedSize - i)]

\* fetchPostsWithCursor, page after page, newest first: the posts of the k
\* pages fetched before the page limit, the end of the feed or a fetch error
Fetched(k) == {SourcePost(i) : i \in (FeedSize - k + 1)..FeedSize}

IdleCollect ==
  [pc |-> "idle", task |-> "none", pending |-> {}, dbPosts |-> << >>,
   fetchError |-> FALSE]

InitCollect ==
  /\ memexPosts = {}
  /\ crun = [r \in CollectSlots |-> IdleCollect]
  /\ trigger = [count |-> 0, status |-> "none"]
  /\ collectStarts = 0
  /\ saveCount = [i \in 1..FeedSize |-> 0]
  /\ backfillCompleted = FALSE
  /\ backfillInProgress = FALSE
  /\ latestAggregatedMetrics = << >>
  /\ aggregatedFrom = {}

\* the row insert(memexPosts).values({...}) writes for a post at time `now`
PostValues(post, now) ==
  [memexPostId |-> post.id, userId |-> post.userId, tokens |-> post.tokens,
   viewCount |-> post.viewCount, likeCount |-> post.likeCount,
   repostCount |-> post.repostCount, replyCount |-> post.replyCount,
   bondingCurveProgress |-> post.bondingCurveProgress,
   priceFluctuationRange |-> post.priceFluctuationRange,
   hasImage |-> post.hasImage, ageDays |-> post.ageDays, processedAt |-> now]

\* (mutation) a conflict adds the post's counters to the stored ones
UpsertPostAdding(rows, post, now) ==
  IF \E x \in rows : x.memexPostId = post.id
  THEN {IF x.memexPostId = post.id
        THEN [x EXCEPT !.viewCount = @ + post.viewCount,
                       !.likeCount = @ + post.likeCount,
                       !.repostCount = @ + post.repostCount,
                       !.replyCount = @ + post.replyCount,
                       !.processedAt = now]
        ELSE x : x \in rows}
  ELSE rows \cup {PostValues(post, now)}

\* insert(memexPosts).values({...}).onConflictDoUpdate({target: memexPostId,
\* set: {viewCount, likeCount, repostCount, replyCount, bondingCurveProgress,
\* priceFluctuationRange, processedAt: new Date()}}) under the unique index
\* memex_post_id_idx, which keeps the rows apart by memexPostId
UpsertPost(rows, post, now) ==
  IF \E x \in rows : x.memexPostId = post.id
  THEN {IF x.memexPostId = post.id
        THEN [x EXCEPT !.viewCount = post.viewCount, !.likeCount = post.likeCount,
                       !.repostCount = post.repostCount, !.replyCount = post.replyCount,
                       !.bondingCurveProgress = post.bondingCurveProgress,
                       !.priceFluctuationRange = post.priceFluctuationRange,
                       !.processedAt = now]
        ELSE x : x \in rows}
  ELSE rows \cup {PostValues(post, now)}

\* getLastSavedPostId: the highest memexPostId stored, 0 for null
GetLastSavedPostId(rows) ==
  IF rows = {} THEN 0 ELSE Max({x.memexPostId : x \in rows})

\* collectIncrementalPosts: of the pages fetched, the posts above the last saved id
CollectIncrementalPosts(rows, k) ==
  LET lastSavedId == GetLastSavedPostId(rows)
  IN  {p \in Fetched(k) : lastSavedId = 0 \/ p.id > lastSavedId}

\* findMany({where: gte(postCreatedAt, sevenDaysAgo)}): the rows of the window
RecentRows(rows) == {x \in rows : x.ageDays + today <= WINDOW_DAYS}

\* the orders in which a query without ORDER BY may return `rows`
Orderings(rows) ==
  {s \in [1..Cardinality(rows) -> rows] :
     \A i, j \in 1..Cardinality(rows) : s[i] = s[j] => i = j}

SeqRange(s) == {s[i] : i \in 1..Len(s)}

RECURSIVE SumField(_, _)
SumField(rows, field) ==
  IF rows = {} THEN 0
  ELSE LET x == CHOOSE y \in rows : TRUE
       IN  x[field] + SumField(rows \ {x}, field)

\* aggregateFromDB, the keys of its `metrics` map in insertion order: the
\* tokens of the posts in row order, each at its first mention
RECURSIVE TokensInOrder(_)
TokensInOrder(dbPosts) ==
  IF dbPosts = << >> THEN << >>
  ELSE LET n == Len(dbPosts)
           before == TokensInOrder(SubSeq(dbPosts, 1, n - 1))
           allTokens == dbPosts[n].tokens
       IN  before \o SelectSeq(allTokens, LAMBDA t : t \notin SeqRange(before))

\* aggregateFromDB, the AggregatedMetrics of one token over the rows that
\* mention it; latestPostTime is carried as the age the scheduler derives from it
TokenMetricsOf(token, dbPosts) ==
  LET mine == {x \in SeqRange(dbPosts) : token \in SeqRange(x.tokens)}
      posts == Cardinality(mine)
  IN  [tokenSymbol |-> token,
       posts |-> posts,
       views |-> SumField(mine, "viewCount"),
       likes |-> SumField(mine, "likeCount"),
       reposts |-> SumField(mine, "repostCount"),
       replies |-> SumField(mine, "replyCount"),
       uniqueUserCount |-> Cardinality({x.userId : x \in mine}),
       ageHours |-> 24 * (today + (CHOOSE a \in {x.ageDays : x \in mine} :
                                     \A b \in {x.ageDays : x \in mine} : a <= b)),
       graduatedPostRatio |->
         Frac(Cardinality({x \in mine : x.bondingCurveProgress = 100}), posts),
       imagePostRatio |-> Frac(Cardinality({x \in mine : x.hasImage}), posts),
       avgPriceFluctuation |->
         Frac(SumField({[x EXCEPT !.priceFluctuationRange = Abs(@)] : x \in mine},
                       "priceFluctuationRange"), posts)]

\* aggregateFromDB on the rows the query returned
AggregateFromDB(dbPosts) ==
  LET keys == TokensInOrder(dbPosts)
  IN  [i \in 1..Len(keys) |-> TokenMetricsOf(keys[i], dbPosts)]

\* processScoreCollection's loop: latestTokenScores.set for every score
RECURSIVE SetScores(_, _)
SetScores(map, scores) ==
  IF scores = << >> THEN map
  ELSE SetScores(MapSet(map, Head(scores).key, Head(scores).score), Tail(scores))

\* processScoreCollection up to the fetches of collectIncrementalPosts: the
\* last saved id is read and k pages are fetched
CollectStart(r, k) ==
  /\ crun[r].pc = "idle"
  /\ collectStarts < MaxCollectRuns
  /\ collectStarts' = collectStarts + 1
  /\ crun' = [crun EXCEPT ![r] =
                [pc |-> "save", task |-> "collect",
                 pending |-> CollectIncrementalPosts(memexPosts, k), dbPosts |-> << >>,
                 fetchError |-> FALSE]]
  /\ UNCHANGED <<trigger, memexPosts, saveCount, backfillCompleted, backfillInProgress,
                 latestAggregatedMetrics, aggregatedFrom, wallHour, snapshots, picked,
                 hourlyVars, signerVars, merkleVars, epochVars, callVars, otherVars>>

\* processMetricsRefresh: refreshRecentPostsMetrics fetches k pages
RefreshStart(r, k) ==
  /\ crun[r].pc = "idle"
  /\ collectStarts < MaxCollectRuns
  /\ collectStarts' = collectStarts + 1
  /\ crun' = [crun EXCEPT ![r] =
                [pc |-> "save", task |-> "refresh", pending |-> Fetched(k),
                 dbPosts |-> << >>,
                 fetchError |-> FALSE]]
  /\ UNCHANGED <<trigger, memexPosts, saveCount, backfillCompleted, backfillInProgress,
                 latestAggregatedMetrics, aggregatedFrom, wallHour, snapshots, picked,
                 hourlyVars, signerVars, merkleVars, epochVars, callVars, otherVars>>

\* (mutation) a guard that only looks at backfillCompleted
MayBackfillUnlessDone == ~backfillCompleted

\* the guard of triggerBackfill and performInitialBackfill
MayBackfill == ~(backfillCompleted \/ backfillInProgress)

\* triggerBackfill while a backfill is in progress or completed: 'skipped'
TriggerBackfillSkipped ==
  /\ ~MayBackfill
  /\ trigger.count < MaxTriggers
  /\ trigger' = [count |-> trigger.count + 1, status |-> "skipped"]
  /\ UNCHANGED <<memexPosts, crun, collectStarts, saveCount, backfillCompleted,
                 backfillInProgress, latestAggregatedMetrics, aggregatedFrom, wallHour,
                 snapshots, picked, hourlyVars, signerVars, merkleVars, epochVars,
                 callVars, otherVars>>

\* triggerBackfill answers 'started' and performInitialBackfill runs:
\* initialBackfill fetches k pages and keeps the posts of the last seven days;
\* with err the fetch after them throws, which ends the loop
BackfillStart(r, k, err) ==
  /\ crun[r].pc = "idle"
  /\ collectStarts < MaxCollectRuns
  /\ MayBackfill
  /\ trigger.count < MaxTriggers
  /\ trigger' = [count |-> trigger.count + 1, status |-> "started"]
  /\ backfillInProgress' = TRUE
  /\ collectStarts' = collectStarts + 1
  /\ crun' = [crun EXCEPT ![r] =
                [pc |-> "save", task |-> "backfill",
                 pending |-> {p \in Fetched(k) : p.ageDays + today <= WINDOW_DAYS},
                 dbPosts |-> << >>, fetchError |-> err]]
  /\ UNCHANGED <<memexPosts, saveCount, backfillCompleted,
                 latestAggregatedMetrics, aggregatedFrom, wallHour, snapshots, picked,
                 hourlyVars, signerVars, merkleVars, epochVars, callVars, otherVars>>

\* saveProcessedPosts, one statement of a Promise.allSettled batch: the
\* statements of a batch run in any order; a rejected one is counted and logged.
\* `new Date()` tells the time by the runs started so far
SavePost(r, post) ==
  /\ crun[r].pc = "save"
  /\ post \in crun[r].pending
  /\ crun' = [crun EXCEPT ![r].pending = @ \ {post}]
  /\ \/ /\ memexPosts' = UpsertPost(memexPosts, post, collectStarts)
        /\ saveCount' = [saveCount EXCEPT ![post.id] = Min2(2, @ + 1)]
     \/ UNCHANGED <<memexPosts, saveCount>>
  /\ UNCHANGED <<trigger, collectStarts, backfillCompleted, backfillInProgress,
                 latestAggregatedMetrics, aggregatedFrom, wallHour, snapshots, picked,
                 hourlyVars, signerVars, merkleVars, epochVars, callVars, otherVars>>

\* refreshRecentPostsMetrics returns once its posts are saved
RefreshFinish(r) ==
  /\ crun[r].pc = "save" /\ crun[r].task = "refresh" /\ crun[r].pending = {}
  /\ crun' = [crun EXCEPT ![r] = IdleCollect]
  /\ UNCHANGED <<trigger, memexPosts, collectStarts, saveCount, backfillCompleted,
                 backfillInProgress, latestAggregatedMetrics, aggregatedFrom, wallHour,
                 snapshots, picked, hourlyVars, signerVars, merkleVars, epochVars,
                 callVars, otherVars>>

\* performInitialBackfill after initialBackfill: backfillCompleted is set and
\* processScoreCollection is awaited, which fetches k pages
BackfillFinish(r, k) ==
  /\ crun[r].pc = "save" /\ crun[r].task = "backfill" /\ crun[r].pending = {}
  /\ backfillCompleted' = TRUE
  /\ crun' = [crun EXCEPT ![r] =
                [pc |-> "save", task |-> "backfill-collect",
                 pending |-> CollectIncrementalPosts(memexPosts, k), dbPosts |-> << >>,
                 fetchError |-> FALSE]]
  /\ UNCHANGED <<trigger, memexPosts, collectStarts, saveCount, backfillInProgress,
                 latestAggregatedMetrics, aggregatedFrom, wallHour, snapshots, picked,
                 hourlyVars, signerVars, merkleVars, epochVars, callVars, otherVars>>

\* collectAndAggregate once the posts are saved: the query of aggregateFromDB
\* reads the rows of the window, in an order of the store's choosing
CollectQuery(r, dbPosts) ==
  /\ crun[r].pc = "save" /\ crun[r].task \in {"collect", "backfill-collect"}
  /\ crun[r].pending = {}
  /\ dbPosts \in Orderings(RecentRows(memexPosts))
  /\ crun' = [crun EXCEPT ![r].pc = "score", ![r].dbPosts = dbPosts]
  /\ UNCHANGED <<trigger, memexPosts, collectStarts, saveCount, backfillCompleted,
                 backfillInProgress, latestAggregatedMetrics, aggregatedFrom, wallHour,
                 snapshots, picked, hourlyVars, signerVars, merkleVars, epochVars,
                 callVars, otherVars>>

\* processScoreCollection from the answer of the query to its end: the rows
\* are aggregated, scored and set in latestTokenScores; without metrics it
\* returns at once. performInitialBackfill then clears backfillInProgress
CollectFinish(r) ==
  /\ crun[r].pc = "score"
  /\ LET aggregatedMetrics == AggregateFromDB(crun[r].dbPosts)
         scores == CalculateBatch(aggregatedMetrics)
     IN  IF aggregatedMetrics = << >>
         THEN UNCHANGED <<tokenScores, latestAggregatedMetrics, aggregatedFrom>>
         ELSE /\ tokenScores' = SetScores(tokenScores, scores)
              /\ latestAggregatedMetrics' = aggregatedMetrics
              /\ aggregatedFrom' = {x.memexPostId : x \in SeqRange(crun[r].dbPosts)}
  /\ backfillInProgress' =
       IF crun[r].task = "backfill-collect" THEN FALSE ELSE backfillInProgress
  /\ crun' = [crun EXCEPT ![r] = IdleCollect]
  /\ UNCHANGED <<trigger, memexPosts, collectStarts, saveCount, backfillCompleted,
                 wallHour, snapshots, picked, snapRows, hrun, upserted, snapStarts,
                 signerVars, merkleVars, epochVars, callVars, otherVars>>

NextCollect ==
  \/ \E r \in CollectSlots, k \in 0..FeedSize : CollectStart(r, k)
  \/ \E r \in CollectSlots, k \in 0..FeedSize : RefreshStart(r, k)
  \/ \E r \in CollectSlots, k \in 0..FeedSize : BackfillStart(r, k, FALSE)
  \/ \E r \in CollectSlots, i \in 1..FeedSize : SavePost(r, SourcePost(i))
  \/ \E r \in CollectSlots : RefreshFinish(r)
  \/ \E r \in CollectSlots, k \in 0..FeedSize : BackfillFinish(r, k)
  \/ \E r \in CollectSlots :
       \E dbPosts \in Orderings(RecentRows(memexPosts)) : CollectQuery(r, dbPosts)
  \/ \E r \in CollectSlots : CollectFinish(r)

\* score collection runs alone: the '*/10 * * * * *' job without refresh or backfill
NextIncremental ==
  \/ \E r \in CollectSlots, k \in 0..FeedSize : CollectStart(r, k)
  \/ \E r \in CollectSlots, i \in 1..FeedSize : SavePost(r, SourcePost(i))
  \/ \E r \in CollectSlots :
       \E dbPosts \in Orderings(RecentRows(memexPosts)) : CollectQuery(r, dbPosts)
  \/ \E r \in CollectSlots : CollectFinish(r)

\* the backfill route and the score collection job, with a metric source that
\* may fail
NextBackfill ==
  \/ \E r \in CollectSlots, k \in 0..FeedSize, err \in BOOLEAN : BackfillStart(r, k, err)
  \/ TriggerBackfillSkipped
  \/ \E r \in CollectSlots, k \in 0..FeedSize : CollectStart(r, k)
  \/ \E r \in CollectSlots, i \in 1..FeedSize : SavePost(r, SourcePost(i))
  \/ \E r \in CollectSlots, k \in 0..FeedSize : BackfillFinish(r, k)
  \/ \E r \in CollectSlots :
       \E dbPosts \in Orderings(RecentRows(memexPosts)) : CollectQuery(r, dbPosts)
  \/ \E r \in CollectSlots : CollectFinish(r)

\* midnight: another day has passed
DayPasses ==
  /\ today < MaxDays
  /\ today' = today + 1
  /\ UNCHANGED <<streamVars, pageVars, wallHour, snapshots, picked, hourlyVars,
                 collectVars, signerVars, merkleVars, epochVars, callVars>>

\* score collection cycles one after the other, over days
NextAging ==
  \/ DayPasses
  \/ \E k \in 0..FeedSize : CollectStart(1, k)
  \/ \E i \in 1..FeedSize : SavePost(1, SourcePost(i))
  \/ \E dbPosts \in Orderings(RecentRows(memexPosts)) : CollectQuery(1, dbPosts)
  \/ CollectFinish(1)

\* ---- processCacheCleanup (scheduler.ts) ----

\* `latestTokenScores.size > 100`, `.slice(0, 100)`
CACHE_LIMIT == 100

\* Array.prototype.sort((a, b) => b[1] - a[1]) on the entries of a map: the
\* stable sort by descending score, each entry at the place that the entries
\* with a higher score and the earlier ones with its own score leave it
SortEntriesDesc(cache) ==
  LET n == Len(cache)
      place == [i \in 1..n |->
                  1 + Cardinality({j \in 1..n :
                        \/ cache[j].score > cache[i].score
                        \/ cache[j].score = cache[i].score /\ j < i})]
  IN  [p \in 1..n |-> cache[CHOOSE i \in 1..n : place[i] = p]]

\* (mutation) the first entries in insertion order are kept
ProcessCacheCleanupOldest(cache) ==
  IF Len(cache) > CACHE_LIMIT THEN SubSeq(cache, 1, CACHE_LIMIT) ELSE cache

\* processCacheCleanup on latestTokenScores: above the limit the entries are
\* sorted by descending score, cut at the limit and set again in that order
ProcessCacheCleanup(cache) ==
  IF Len(cache) > CACHE_LIMIT
  THEN SubSeq(SortEntriesDesc(cache), 1, CACHE_LIMIT)
  ELSE cache

\* caches of the sizes around the limit; the i-th symbol set has the score
\* (i * step + offset) modulo ScoreSpread
CacheInputs ==
  {[i \in 1..n |-> [key |-> i, score |-> (i * step + offset) % ScoreSpread]] :
     n \in (CACHE_LIMIT - 1)..(CACHE_LIMIT + MaxOver),
     step \in 0..MaxStep, offset \in 0..MaxOffset}

ApplyProcessCacheCleanup ==
  /\ ~called
  /\ called' = TRUE
  /\ result' = ProcessCacheCleanup(arg)
  /\ UNCHANGED <<arg, snapVars, signerVars, merkleVars, epochVars>>

\* ==========================================================================
\* WebSocket stream (src/src/ws/stream.ts)
\* ==========================================================================

WsClients == 1..MaxWsClients

\* pool ids as clients and the broadcaster spell them, in either letter case
WsPoolIds == {<<"A">>, <<"a">>, <<"B">>}

\* String.prototype.toLowerCase
ToLowerCase(str) ==
  [i \in 1..Len(str) |->
     IF str[i] = "A" THEN "a" ELSE IF str[i] = "B" THEN "b" ELSE str[i]]

NoClientData == [subscribedPools |-> {}, subscribeAll |-> FALSE]

NoBroadcast == [poolId |-> << >>, to |-> {}, subscribers |-> {}, lapsed |-> {}]

InitStream ==
  /\ wsOpen = {}
  /\ clients = {}
  /\ wsData = [c \in WsClients |-> NoClientData]
  /\ wsSent = [c \in WsClients |-> "none"]
  /\ wanted = [c \in WsClients |-> {}]
  /\ wantAll = {}
  /\ bcast = NoBroadcast

\* websocketHandlers.open on a new connection
WsOpen(c) ==
  /\ c \notin wsOpen
  /\ wsOpen' = wsOpen \cup {c}
  /\ clients' = clients \cup {c}
  /\ wsData' = [wsData EXCEPT ![c] = NoClientData]
  /\ wsSent' = [wsSent EXCEPT ![c] = "connected"]
  /\ wanted' = [wanted EXCEPT ![c] = {}]
  /\ wantAll' = wantAll \ {c}
  /\ UNCHANGED <<bcast, wallHour, snapshots, picked, hourlyVars, collectVars,
                 signerVars, merkleVars, epochVars, callVars, pageVars, today>>

\* message {type: "subscribe", poolIds}: handleSubscribe
HandleSubscribe(c, poolIds) ==
  /\ c \in wsOpen
  /\ wsData' = [wsData EXCEPT ![c].subscribedPools =
                  @ \cup {ToLowerCase(poolId) : poolId \in poolIds}]
  /\ wsSent' = [wsSent EXCEPT ![c] = "subscribed"]
  /\ wanted' = [wanted EXCEPT ![c] = @ \cup poolIds]
  /\ UNCHANGED <<wsOpen, clients, wantAll, bcast, wallHour, snapshots, picked,
                 hourlyVars, collectVars, signerVars, merkleVars, epochVars, callVars, pageVars, today>>

\* message {type: "unsubscribe", poolIds}: handleUnsubscribe
HandleUnsubscribe(c, poolIds) ==
  /\ c \in wsOpen
  /\ wsData' = [wsData EXCEPT ![c].subscribedPools =
                  @ \ {ToLowerCase(poolId) : poolId \in poolIds}]
  /\ wsSent' = [wsSent EXCEPT ![c] = "unsubscribed"]
  /\ wanted' = [wanted EXCEPT ![c] =
                  {w \in @ : \A poolId \in poolIds : ToLowerCase(w) # ToLowerCase(poolId)}]
  /\ UNCHANGED <<wsOpen, clients, wantAll, bcast, wallHour, snapshots, picked,
                 hourlyVars, collectVars, signerVars, merkleVars, epochVars, callVars, pageVars, today>>

\* message {type: "subscribeAll"}: the default branch of the switch
HandleSubscribeAll(c) ==
  /\ c \in wsOpen
  /\ wsData' = [wsData EXCEPT ![c].subscribeAll = TRUE]
  /\ wsSent' = [wsSent EXCEPT ![c] = "subscribed"]
  /\ wantAll' = wantAll \cup {c}
  /\ UNCHANGED <<wsOpen, clients, wanted, bcast, wallHour, snapshots, picked,
                 hourlyVars, collectVars, signerVars, merkleVars, epochVars, callVars, pageVars, today>>

\* a message of another type, or one that is not JSON: an error is sent back
HandleUnknown(c) ==
  /\ c \in wsOpen
  /\ wsSent' = [wsSent EXCEPT ![c] = "error"]
  /\ UNCHANGED <<wsOpen, clients, wsData, wanted, wantAll, bcast, wallHour, snapshots,
                 picked, hourlyVars, collectVars, signerVars, merkleVars, epochVars,
                 callVars, pageVars, today>>

\* websocketHandlers.close: the connection has ended, and its data with it
WsClose(c) ==
  /\ c \in wsOpen
  /\ wsOpen' = wsOpen \ {c}
  /\ clients' = clients \ {c}
  /\ wsData' = [wsData EXCEPT ![c] = NoClientData]
  /\ wsSent' = [wsSent EXCEPT ![c] = "none"]
  /\ UNCHANGED <<wanted, wantAll, bcast, wallHour, snapshots, picked,
                 hourlyVars, collectVars, signerVars, merkleVars, epochVars, callVars, pageVars, today>>

\* websocketHandlers.error: the connection has failed, and its data with it
WsError(c) ==
  /\ c \in wsOpen
  /\ wsOpen' = wsOpen \ {c}
  /\ clients' = clients \ {c}
  /\ wsData' = [wsData EXCEPT ![c] = NoClientData]
  /\ wsSent' = [wsSent EXCEPT ![c] = "failed"]
  /\ UNCHANGED <<wanted, wantAll, bcast, wallHour, snapshots, picked,
                 hourlyVars, collectVars, signerVars, merkleVars, epochVars, callVars, pageVars, today>>

\* (mutation) the pool id looked up as it was given
BroadcastTargetsExact(poolId) ==
  {c \in clients : wsData[c].subscribeAll \/ poolId \in wsData[c].subscribedPools}

\* broadcastScoreUpdate, the clients its loop sends to
BroadcastTargets(poolId) ==
  LET poolIdLower == ToLowerCase(poolId)
  IN  {c \in clients : wsData[c].subscribeAll \/ poolIdLower \in wsData[c].subscribedPools}

\* the connections whose last subscription state asks for `poolId`: all updates,
\* or a pool id equal to it but for letter case subscribed and not unsubscribed
AskedFor(poolId) ==
  {c \in WsClients :
     c \in wantAll \/ \E w \in wanted[c] : ToLowerCase(w) = ToLowerCase(poolId)}

\* broadcastScoreUpdate(poolId, signedScore)
BroadcastScoreUpdate(poolId) ==
  /\ wsSent' = [c \in WsClients |->
                  IF c \in BroadcastTargets(poolId) THEN "scoreUpdate" ELSE wsSent[c]]
  /\ bcast' = [poolId |-> poolId, to |-> BroadcastTargets(poolId),
               subscribers |-> AskedFor(poolId) \cap wsOpen,
               lapsed |-> AskedFor(poolId) \ wsOpen]
  /\ UNCHANGED <<wsOpen, clients, wsData, wanted, wantAll, wallHour, snapshots, picked,
                 hourlyVars, collectVars, signerVars, merkleVars, epochVars, callVars, pageVars, today>>

NextStream ==
  \/ \E c \in WsClients : WsOpen(c)
  \/ \E c \in WsClients, poolIds \in SUBSET WsPoolIds : HandleSubscribe(c, poolIds)
  \/ \E c \in WsClients, poolIds \in SUBSET WsPoolIds : HandleUnsubscribe(c, poolIds)
  \/ \E c \in WsClients : HandleSubscribeAll(c)
  \/ \E c \in WsClients : HandleUnknown(c)
  \/ \E c \in WsClients : WsClose(c)
  \/ \E c \in WsClients : WsError(c)
  \/ \E poolId \in WsPoolIds : BroadcastScoreUpdate(poolId)

\* ==========================================================================
\* MemexCollector.collectIncrementalPosts: the fetch loop
\* ==========================================================================

\* `const MAX_PAGES = 20`
MAX_PAGES == 20

\* cursors the source hands out (0: none), and last saved ids (0: null)
Cursors == 0..MaxCursor
LastSavedIds == {0, 2}

IdlePager == [pc |-> "idle", lastSavedId |-> 0, cursor |-> 0, pageCount |-> 0, fetches |-> 0]

InitPager ==
  /\ pager = IdlePager
  /\ today = 0

\* (mutation) a loop without the page limit
MayFetchAlways(pageCount) == TRUE

\* `while (pageCount < MAX_PAGES)`
MayFetch(pageCount) == pageCount < MAX_PAGES

\* collectIncrementalPosts up to the loop: getLastSavedPostId has answered
PagesStart(lastSavedId) ==
  /\ pager.pc = "idle"
  /\ pager' = [pager EXCEPT !.pc = "loop", !.lastSavedId = lastSavedId]
  /\ UNCHANGED <<streamVars, wallHour, snapshots, picked, hourlyVars, collectVars,
                 signerVars, merkleVars, epochVars, callVars, today>>

\* the head of the loop: below the limit fetchPostsWithCursor is called, at the
\* limit the function returns
PageFetch ==
  /\ pager.pc = "loop"
  /\ pager' = IF MayFetch(pager.pageCount)
              THEN [pager EXCEPT !.pc = "fetching", !.fetches = @ + 1]
              ELSE [pager EXCEPT !.pc = "done"]
  /\ UNCHANGED <<streamVars, wallHour, snapshots, picked, hourlyVars, collectVars,
                 signerVars, merkleVars, epochVars, callVars, today>>

\* the fetch throws (transport error or a status that is not ok): catch, break
PageError ==
  /\ pager.pc = "fetching"
  /\ pager' = [pager EXCEPT !.pc = "done"]
  /\ UNCHANGED <<streamVars, wallHour, snapshots, picked, hourlyVars, collectVars,
                 signerVars, merkleVars, epochVars, callVars, today>>

\* the fetch answers with a page: `empty` for no contents, `reachedOld` for a
\* post at or below the last saved id among them, and the next cursor
PageAnswer(empty, reachedOld, nextCursor) ==
  /\ pager.pc = "fetching"
  /\ pager' =
       IF empty \/ (pager.lastSavedId # 0 /\ reachedOld)
       THEN [pager EXCEPT !.pc = "done", !.pageCount = @ + 1]
       ELSE IF nextCursor = 0
       THEN [pager EXCEPT !.pc = "done", !.pageCount = @ + 1, !.cursor = nextCursor]
       ELSE [pager EXCEPT !.pc = "delay", !.pageCount = @ + 1, !.cursor = nextCursor]
  /\ UNCHANGED <<streamVars, wallHour, snapshots, picked, hourlyVars, collectVars,
                 signerVars, merkleVars, epochVars, callVars, today>>

\* the rate-limiting delay has passed
PageDelay ==
  /\ pager.pc = "delay"
  /\ pager' = [pager EXCEPT !.pc = "loop"]
  /\ UNCHANGED <<streamVars, wallHour, snapshots, picked, hourlyVars, collectVars,
                 signerVars, merkleVars, epochVars, callVars, today>>

NextPages ==
  \/ \E lastSavedId \in LastSavedIds : PagesStart(lastSavedId)
  \/ PageFetch
  \/ PageError
  \/ \E empty \in BOOLEAN, reachedOld \in BOOLEAN, nextCursor \in Cursors :
       PageAnswer(empty, reachedOld, nextCursor)
  \/ PageDelay

\* ==========================================================================
\* Specifications
\* ==========================================================================

InitAux == InitSnap /\ InitCall /\ InitCollect /\ InitStream /\ InitPager

\* the state after construction of the three services
Init == InitSigner /\ InitMerkle /\ InitEpoch /\ InitAux

\* one service at a time: the coordinator is configured and quiet
InitQuiet == Init /\ ready /\ rankable /\ lastEpoch = 0

SpecSigner == InitQuiet /\ [][NextSigner]_vars

SpecSignerRestart == InitQuiet /\ [][NextSigner \/ Restart]_vars

SpecMerkle == InitQuiet /\ [][NextMerkle]_vars

SpecEpoch == Init /\ [][NextEpoch]_vars

SpecSnap == InitQuiet /\ [][NextSnap]_vars

SpecHourly == InitQuiet /\ [][NextHourly]_vars

SpecCollect == InitQuiet /\ [][NextCollect]_vars

SpecStream == InitQuiet /\ [][NextStream]_vars

SpecAging == InitQuiet /\ [][NextAging]_vars

SpecBackfill == InitQuiet /\ [][NextBackfill]_vars

\* the source answers every fetch and timers fire
SpecPagesFair == InitQuiet /\ [][NextPages]_vars /\ WF_vars(NextPages)

SpecIncremental == InitQuiet /\ [][NextIncremental]_vars

\* the services at rest, the function's argument drawn from `inputs`
InitApply(inputs) ==
  /\ InitSigner /\ InitMerkle /\ InitEpoch /\ InitSnap /\ InitCollect /\ InitStream
  /\ InitPager
  /\ ready /\ rankable /\ lastEpoch = 0
  /\ arg \in inputs
  /\ called = FALSE
  /\ result = << >>

SpecPairs == InitApply(RankingLists) /\ [][ApplyBuildViralPairs]_vars

SpecRank == InitApply(RankInputs) /\ [][ApplyBuildTokenRankings]_vars

SpecMatch == InitApply(MatchInputs) /\ [][ApplyFindTokenScore]_vars

SpecScore == InitApply(MetricsInputs) /\ [][ProcessScoreCollection]_vars

SpecPenalty == InitApply(MetricsInputs) /\ [][ApplyApplyAntiGaming]_vars

SpecPairScore == InitApply(PairScoreInputs) /\ [][ApplyCalculatePairScore]_vars

SpecPoolId == InitApply(SymbolPairs) /\ [][ApplyGeneratePairPoolId]_vars

SpecProof == InitApply(ProofQueries) /\ [][NextProof]_vars

SpecCleanup == InitApply(CacheInputs) /\ [][ApplyProcessCacheCleanup]_vars

\* The cron ticks keep firing whatever the runs in flight do (strong fairness:
\* a tick is never blocked by the code, only by the model's bound on run slots),
\* and every awaited call eventually settles.
SpecEpochFair ==
  /\ SpecEpoch
  /\ SF_vars(\E r \in RunSlots : CheckTick(r))
  /\ WF_vars(\E r \in RunSlots : HourlyTick(r))
  /\ \A r \in RunSlots : WF_vars(RunStep(r))

\* ==========================================================================
\* Properties
\* ==========================================================================

\* C1: the nonces issued for one pool, in issue order, are pairwise distinct,
\* strictly increasing and consecutive: with an empty store the i-th nonce issued
\* for a pool is i, also when the requests overlap on a cold cache.
C1_NoncesConsecutive ==
  \A p \in Pools : \A i \in 1..Len(issued[p]) : issued[p][i] = i

\* C2: after any number of builds, sequential or racing, the persisted checkpoint
\* epochs are exactly 1..K for the K builds that succeeded, none twice.
C2_EpochsOneToK ==
  /\ Len(checkpoints) = buildsOk
  /\ {checkpoints[i].epoch : i \in 1..Len(checkpoints)} = 1..buildsOk
  /\ \A i, j \in 1..Len(checkpoints) : i # j => checkpoints[i].epoch # checkpoints[j].epoch

\* two checkpoints are persisted and a racing build, which had read the same last
\* epoch as a build that persisted first, was rejected by the store
C2_Witness ==
  /\ Len(checkpoints) >= 2
  /\ \E b \in BuildSlots : breq[b].pc = "rejected"

\* C3: an epoch is settled at most once: a run sends the write for epoch E only if
\* E is not settled yet and no other write for E is outstanding.
C3_EpochWrittenOnce ==
  [][\A r \in RunSlots :
       (~run[r].wrote /\ run'[r].wrote) =>
         /\ lastEpoch < run[r].epoch
         /\ \A q \in RunSlots \ {r} :
              ~(run[q].pc = "p_wait" /\ run[q].epoch = run[r].epoch)]_vars

\* C4: an attempt whose first contract read showed currentEpoch <= lastEpoch
\* produces no signature and no write and ends as "cannot submit".
C4_CannotSubmitIsInert ==
  \A r \in RunSlots :
    run[r].first = "cannot" =>
      /\ ~run[r].signed
      /\ ~run[r].wrote
      /\ run[r].pc = "done"
      /\ \/ run[r].outcome = "cannot_submit"
         \/ run[r].outcome = "none" /\ run[r].report \in {"skipped", "cannot"}

\* each kind of attempt has ended as "cannot submit" after reading
\* currentEpoch = lastEpoch from the contract
C4_Witness ==
  /\ lastEpoch = chainEpoch
  /\ \E r \in RunSlots : run[r].first = "cannot" /\ run[r].kind = "hourly"
  /\ \E r \in RunSlots : run[r].first = "cannot" /\ run[r].kind # "hourly"

\* C5: two runs of the same periodic task (hourly submission, reconciliation
\* check) are never in progress at once.
C5_NoOverlapOfSameTask ==
  \A r, q \in RunSlots :
    (r # q /\ run[r].kind \in {"hourly", "check"} /\ run[r].kind = run[q].kind)
      => (run[r].pc = "done" \/ run[q].pc = "done")

\* C6: a manual trigger that arrives while a submission is running reports
\* "already in progress" and starts no second submission run.
C6_ManualWhileBusy ==
  \A r \in RunSlots :
    (run[r].kind = "manual" /\ run[r].busyAtStart) =>
      /\ ~InSubmission(run[r])
      /\ run[r].outcome = "none"
      /\ run[r].pc = "done" => run[r].report = "in_progress"

\* C7: the manual trigger reports success only if the run it started signed,
\* wrote and got a successful confirmation.
C7_ReportedSuccessIsReal ==
  \A r \in RunSlots :
    (run[r].kind = "manual" /\ run[r].report = "success") =>
      /\ run[r].outcome = "submitted"
      /\ run[r].signed
      /\ run[r].wrote
      /\ run[r].receipt = "success"

\* C8: a submission confirmed with a reverted receipt is not reported as submitted.
C8_RevertedIsFailure ==
  \A r \in RunSlots : run[r].receipt = "reverted" => run[r].outcome # "submitted"

\* an attempt for the current epoch E has failed and E is still unsubmitted
FailedFor(E) ==
  /\ chainEpoch = E
  /\ lastEpoch < E
  /\ \E r \in RunSlots : run[r].pc = "done" /\ run[r].outcome = "failed"

Settled(E) == lastEpoch >= E \/ chainEpoch > E

\* there is something to submit: scores in memory and a ranked token with a pool
DataToSubmit == scoresSize > 0 /\ rankable

\* a run that has sent its write never goes back to signing or writing
NoInTickRetry ==
  [][\A r \in RunSlots :
       run[r].pc \in {"p_wait", "done"} => run'[r].pc \notin {"p_sign", "p_write"}]_vars

\* C9 as stated: no write is repeated inside the failing tick, and whenever an
\* attempt for the current epoch E has failed and there is data to submit, E is
\* eventually submitted (or is no longer current).
C9_FailedEpochRetried ==
  /\ NoInTickRetry
  /\ \A E \in 1..MaxEpoch : (FailedFor(E) /\ DataToSubmit) ~> Settled(E)

\* C9 as amended: the same, provided exactly one epoch is missing.
C9_FailedEpochRetriedIfOneMissing ==
  /\ NoInTickRetry
  /\ \A E \in 1..MaxEpoch :
       (FailedFor(E) /\ DataToSubmit /\ lastEpoch = E - 1) ~> Settled(E)

\* after a failed attempt for epoch E, with E still current, a reconciliation
\* check has submitted E
C9_Witness ==
  /\ lastEpoch = chainEpoch
  /\ rpcFaults > 0
  /\ \E r \in RunSlots :
       /\ run[r].kind = "check"
       /\ run[r].outcome = "submitted"
       /\ run[r].receipt = "success"
       /\ run[r].epoch = chainEpoch

\* C10: the reconciliation check runs the submission only when canSubmit held and
\* exactly one epoch was missing; with more than one missing it only warns,
\* without signature or write.
C10_CatchUpOnlyOneMissing ==
  \A r \in RunSlots :
    run[r].kind = "check" =>
      /\ (InSubmission(run[r]) \/ run[r].outcome # "none")
           => (run[r].first = "can" /\ run[r].missing = 1)
      /\ run[r].missing > 1
           => /\ ~run[r].signed
              /\ ~run[r].wrote
              /\ run[r].pc = "done" => run[r].report = "warned"

\* one check found two epochs missing and only warned while another check, which
\* had found one missing, is signing its catch-up submission
C10_Witness ==
  /\ \E r \in RunSlots :
       run[r].kind = "check" /\ run[r].missing = 2 /\ run[r].report = "warned"
  /\ \E r \in RunSlots :
       run[r].kind = "check" /\ run[r].missing = 1 /\ run[r].signed

C12_FailuresCaught ==
  /\ \A r \in RunSlots :
       /\ run[r].pc # "unhandled"
       /\ (run[r].outcome = "failed" \/ run[r].report = "error") => run[r].pc = "done"
  /\ (\E r \in RunSlots : run[r].pc = "idle") =>
       /\ ENABLED (\E r \in RunSlots : CheckTick(r))
       /\ hourlyDue => ENABLED (\E r \in RunSlots : HourlyTick(r))
       /\ scoresSize = 0 => ENABLED ScoresArrive

\* a chain RPC failure has ended an hourly submission run as failed, and a
\* reconciliation check started after it is in flight
C12_Witness ==
  /\ rpcFaults > 0
  /\ \E r \in RunSlots : run[r].kind = "hourly" /\ run[r].pc = "done" /\ run[r].outcome = "failed"
  /\ \E r \in RunSlots : run[r].kind = "check" /\ run[r].pc \in {"o_cur", "o_last"}

\* C13: the scores for epoch E come from E's own snapshot whenever it exists; the
\* previous hour's snapshot is used only when E is the current epoch and E's own
\* snapshot does not exist; the in-memory scores only when neither exists.
C13_OwnSnapshotFirst ==
  (picked.epoch # 0 /\ picked.answered) =>
    /\ picked.own => (picked.fromSnapshot /\ picked.snapshotHour = picked.epoch)
    /\ (picked.fromSnapshot /\ picked.snapshotHour = picked.epoch - 1)
         => (IsCurrentEpoch(picked.epoch, picked.now) /\ ~picked.own)
    /\ ~picked.fromSnapshot => (~picked.own /\ ~picked.prev)

\* how many pairs the token at rank r must contribute
C14_Count(r) == IF r <= Len(arg) THEN Min2(Len(arg[r].binSteps), 4 - r) ELSE 0

\* C14: buildViralPairs emits, for the token at rank r in {1,2,3}, exactly
\* min(number of its pools, 4 - r) pairs from the front of its pool list, tagged
\* r, in rank order; later tokens and tokens without pools add nothing; never
\* more than 6 pairs, never a rank outside {1,2,3}.
C14_PairsPerRank ==
  called =>
    /\ Len(result) = C14_Count(1) + C14_Count(2) + C14_Count(3)
    /\ Len(result) <= 6
    /\ \A k \in 1..Len(result) : result[k].rank \in {1, 2, 3}
    /\ \A r \in 1..3 : \A i \in 1..C14_Count(r) :
         LET offset == IF r = 1 THEN 0
                       ELSE IF r = 2 THEN C14_Count(1)
                       ELSE C14_Count(1) + C14_Count(2)
         IN  result[offset + i] =
               [tokenX |-> arg[r].tokenAddress, tokenY |-> arg[r].quoteTokenAddress,
                binStep |-> arg[r].binSteps[i], rank |-> r]

\* four tokens: rank 1 with four pools, rank 2 with none, rank 3 with two, a
\* fourth with pools; three pairs of rank 1 and one of rank 3 came out
C14_Witness ==
  /\ called
  /\ Len(arg) = 4
  /\ Len(arg[1].binSteps) = 4 /\ Len(arg[2].binSteps) = 0
  /\ Len(arg[3].binSteps) = 2 /\ Len(arg[4].binSteps) > 0
  /\ Len(result) = 4
  /\ result[4].rank = 3

\* the token (its index in TokenSeq) a ranking is about
C15_TokenOf(ranking) == CHOOSE i \in 1..MaxTokens : TokenSeq[i] = ranking.tokenAddress

\* the place of token i in the liquidity source's answer (past its end if absent)
C15_SourcePos(i) ==
  LET src == GetMemeTokensWithPools(FetchAllPairs(arg))
      at == {k \in 1..Len(src) : src[k].tokenAddress = TokenSeq[i]}
  IN  IF at = {} THEN Len(src) + 1 ELSE CHOOSE k \in at : TRUE

\* token i ranks ahead of token j: higher score, or equal score and earlier in
\* the liquidity source's order
C15_Ahead(i, j) ==
  \/ arg[i].score > arg[j].score
  \/ arg[i].score = arg[j].score /\ C15_SourcePos(i) < C15_SourcePos(j)

\* the tokens handed over are the top three of `candidates`, best first
C15_TopThreeOf(candidates) ==
  called =>
    LET ranked == {C15_TokenOf(result[k]) : k \in 1..Len(result)}
    IN  /\ ranked \subseteq candidates
        /\ Cardinality(ranked) = Len(result)
        /\ Len(result) = Min2(3, Cardinality(candidates))
        /\ \A k \in 1..Len(result) : result[k].score = arg[C15_TokenOf(result[k])].score
        /\ \A k, l \in 1..Len(result) :
             k < l => C15_Ahead(C15_TokenOf(result[k]), C15_TokenOf(result[l]))
        /\ \A i \in ranked, j \in candidates \ ranked : C15_Ahead(i, j)

\* C15 as stated: the tokens handed to pair building are the up to three
\* highest-scoring tokens among those with a score > 0 and at least one quote
\* pool, in descending score order, ties in the liquidity source's order.
C15_TopThreeWithQuotePool ==
  C15_TopThreeOf({i \in 1..MaxTokens : arg[i].score > 0 /\ arg[i].pool = "quote"})

\* C15 as amended: the same, among the tokens with a score > 0 and at least one
\* quote pool holding a positive locked value.
C15_TopThreeWithFundedQuotePool ==
  C15_TopThreeOf({i \in 1..MaxTokens :
                    arg[i].score > 0 /\ arg[i].pool = "quote" /\ arg[i].tvl > 0})

\* four tokens with funded quote pools and positive scores, two of them tied, the
\* lowest-scoring one in front of the liquidity order: three were handed over
C15_Witness ==
  /\ called
  /\ \A i \in 1..4 : arg[i].pool = "quote" /\ arg[i].tvl > 0 /\ arg[i].score > 0
  /\ arg[1].score = 1 /\ arg[1].tvl = 2
  /\ arg[2].score = 2 /\ arg[3].score = 2 /\ arg[2].tvl < arg[3].tvl
  /\ Len(result) = 3
  /\ result[1].tokenAddress = TokenSeq[3]

\* C16: the strategies are tried in the order exact symbol, exact display name,
\* substring containment, and the first one that finds an entry in the score map
\* decides: an entry under the symbol gives the result its score, and the name or
\* the containment strategy is used only if no earlier strategy found an entry.
C16_FirstMatchWins ==
  called =>
    LET symbol == ToUpperCase(arg.tokenData.tokenSymbol)
        name == ToUpperCase(arg.tokenData.tokenName)
    IN  /\ HasKey(arg.scoreMap, symbol) => result.score = ScoreAt(arg.scoreMap, symbol)
        /\ result.matchedBy = "name" => ~HasKey(arg.scoreMap, symbol)
        /\ result.matchedBy = "name-partial" =>
             (~HasKey(arg.scoreMap, symbol) /\ ~HasKey(arg.scoreMap, name))

\* C17: for metrics with non-negative counts and ratios in [0, 1], the score that
\* calculate returns is an integer between 0 and 10000.
C17_ValidMetrics ==
  /\ arg.posts >= 0 /\ arg.views >= 0 /\ arg.likes >= 0 /\ arg.reposts >= 0
  /\ arg.replies >= 0 /\ arg.uniqueUserCount >= 0
  /\ \A ratio \in {arg.graduatedPostRatio, arg.imagePostRatio} :
       ~Less(ratio, Whole(0)) /\ ~Less(Whole(1), ratio)

C17_ScoreInRange ==
  (called /\ C17_ValidMetrics) =>
    (Len(result) = 1 /\ result[1].score \in MIN_SCORE..MAX_SCORE)

\* valid metrics whose raw score exceeds the normaliser: scored above the middle
C17_Witness ==
  /\ called /\ C17_ValidMetrics
  /\ arg.views = 10000 /\ arg.posts = 51 /\ arg.ageHours = 0
  /\ result[1].score > 5000

\* C18: metrics with a negative count are rejected before scoring: no score is
\* returned for them and latestTokenScores receives no entry from them.
C18_NegativeCountsRejected ==
  (called /\ \E n \in {arg.posts, arg.views, arg.likes, arg.reposts, arg.replies,
                       arg.uniqueUserCount} : n < 0)
    => \A i \in 1..Len(result) : result[i].key # arg.tokenSymbol

\* C19: metrics whose latest post is more than 168 hours old score exactly 0,
\* whatever their counts and bonuses; at an age of exactly 168 hours the decay is
\* not forced to 0: metrics with non-negative counts and at least ten posts
\* still score above 0.
C19_ZeroBeyondMaxAge ==
  called =>
    /\ arg.ageHours > MAX_AGE_HOURS => result[1].score = 0
    /\ (arg.ageHours = MAX_AGE_HOURS /\ C17_ValidMetrics /\ arg.posts >= 10)
         => result[1].score > 0

\* metrics one hour past the limit were scored with the largest counts and every
\* bonus: the score is 0
C19_Witness ==
  /\ called
  /\ arg.posts = 51 /\ arg.views = 10000 /\ arg.uniqueUserCount = 3
  /\ arg.graduatedPostRatio = Whole(1) /\ arg.imagePostRatio = Whole(1)
  /\ arg.ageHours = MAX_AGE_HOURS + 1
  /\ result[1].score = 0

\* C20: the score leaves applyAntiGaming reduced by min(0.5, p), where p adds 0.3
\* iff views > 1000 and (likes + reposts + replies) / views < 0.001, 0.2 iff
\* posts > 10 and uniqueUsers < 3, and 0.1 iff posts > 50 (in tenths below); with
\* posts = 10, views = 10000, likes = 5 and uniqueUsers = 2 the reduction is 0.3.
C20_TenthsOf(m) ==
  (IF m.views > 1000 /\ (m.likes + m.reposts + m.replies) * 1000 < m.views
   THEN 3 ELSE 0)
  + (IF m.posts > 10 /\ m.uniqueUserCount < 3 THEN 2 ELSE 0)
  + (IF m.posts > 50 THEN 1 ELSE 0)

C20_PenaltyCappedAndStrict ==
  called =>
    /\ result.score =
         Frac(CalculateRawScore(arg) * (10 - Min2(5, C20_TenthsOf(arg))), 10)
    /\ (arg.posts = 10 /\ arg.views = 10000 /\ arg.likes = 5 /\ arg.reposts = 0
        /\ arg.uniqueUserCount = 2)
         => result.score = Frac(CalculateRawScore(arg) * 7, 10)

\* the example of the claim went through applyAntiGaming and lost three tenths
C20_Witness ==
  /\ called
  /\ arg.posts = 10 /\ arg.views = 10000 /\ arg.likes = 5 /\ arg.reposts = 0
  /\ arg.replies = 0 /\ arg.uniqueUserCount = 2
  /\ result.score = Whole(8050)

\* C21: for token scores x and y in 0..10000 the pair score of (x, y) equals the
\* pair score of (y, x) and equals (x + y) / 2 rounded to the nearest integer
\* (halves up), and it lies in 0..10000.
C21_PairScoreSymmetricAverage ==
  called =>
    LET x == arg.tokenXScore
        y == arg.tokenYScore
    IN  /\ result.pairScore = CalculatePairScore(y, x)
        /\ 2 * result.pairScore \in {x + y, x + y + 1}
        /\ result.pairScore \in 0..10000

\* two different scores with an odd sum were averaged: the half went up
C21_Witness ==
  /\ called
  /\ arg.tokenXScore = 4001 /\ arg.tokenYScore = 8000
  /\ result.pairScore = 6001

\* C22: for the token scores 8000 and 4000 the pair score is 6000 and the tier
\* derived from it is HOT.
C22_PairTierHot ==
  (called /\ {arg.tokenXScore, arg.tokenYScore} = {8000, 4000})
    => (result.pairScore = 6000 /\ result.tier = "HOT")

\* C22 as amended: for the token scores 8000 and 4000 the pair score is 6000 and
\* the tier derived from it is VIRAL (the tier of the scores 6000..7999).
C22_PairTierViral ==
  (called /\ {arg.tokenXScore, arg.tokenYScore} = {8000, 4000})
    => (result.pairScore = 6000 /\ result.tier = "VIRAL")

\* the scores 8000 and 4000 were paired and the tier was derived
C22_Witness ==
  /\ called
  /\ arg.tokenXScore = 8000 /\ arg.tokenYScore = 4000
  /\ result.pairScore = 6000 /\ result.tier \in {"HOT", "VIRAL"}

\* C23: the pool identifier of (a, b) equals the one of (b, a), and the one of any
\* two symbols that differ from b and a only in letter case: it depends only on
\* the unordered pair of the upper-cased symbols.
C23_PoolIdSymmetric ==
  called =>
    /\ result = GeneratePairPoolId(arg.tokenY, arg.tokenX)
    /\ \A other \in SymbolPairs :
         ({ToUpperCase(other.tokenX), ToUpperCase(other.tokenY)}
            = {ToUpperCase(arg.tokenX), ToUpperCase(arg.tokenY)})
           => GeneratePairPoolId(other.tokenX, other.tokenY) = result

\* two different symbols given in descending order, one of them in lower case:
\* the identifier is the one of the sorted upper-case pair
C23_Witness ==
  /\ called
  /\ arg.tokenX = <<"B">> /\ arg.tokenY = <<"a", "B">>
  /\ result = Keccak256(<<"A", "B", "B">>)

\* C24: for every persisted checkpoint and every leaf (poolId, score, epoch) in
\* it, the proof that getProofFromCheckpoint returns for that poolId and epoch is
\* accepted by verifyProof, and the same proof with another poolId, another score
\* or another hash in one place of its path is rejected.
C24_OtherHashes ==
  {StandardLeafHash(<<id, score, epoch>>) :
     id \in Pools, score \in {5, 10}, epoch \in 1..MaxCheckpoints}
  \cup {checkpoints[i].root : i \in 1..Len(checkpoints)}

C24_RoundTrip(proof) ==
  /\ proof.found
  /\ VerifyProof(proof)
  /\ \A id \in (Pools \cup {"R"}) \ {proof.poolId} :
       ~VerifyProof([proof EXCEPT !.poolId = id])
  /\ \A score \in {0, 5, 10} \ {proof.score} :
       ~VerifyProof([proof EXCEPT !.score = score])
  /\ \A k \in 1..Len(proof.proof) :
       \A h \in C24_OtherHashes \ {proof.proof[k]} :
         ~VerifyProof([proof EXCEPT !.proof[k] = h])

C24_ProofsVerify ==
  /\ \A c \in 1..Len(checkpoints) :
       \A l \in 1..Len(checkpoints[c].treeData.leaves) :
         C24_RoundTrip(GetProofFromCheckpoint(
                         checkpoints, checkpoints[c].treeData.leaves[l].poolId,
                         EpochNumber(checkpoints[c].epoch)))
  /\ (called /\ result.found) => C24_RoundTrip(result)

\* a proof with a path of two hashes was returned for a leaf of the first of two
\* checkpoints
C24_Witness ==
  /\ called
  /\ Len(checkpoints) = 2
  /\ arg.epoch = EpochNumber(1)
  /\ result.found
  /\ result.epoch = 1
  /\ Len(result.proof) = 2
  /\ VerifyProof(result)

\* C25: getProof with an epoch for which no checkpoint is persisted, or with a
\* poolId that is no leaf of the selected checkpoint, returns NotFound; a supplied
\* epoch never resolves to another checkpoint (the latest checkpoint is used only
\* when no epoch is supplied).
C25_UnknownIsNotFound ==
  called =>
    LET supplied == arg.epoch.kind # "undefined"
        held == {i \in 1..Len(checkpoints) :
                   arg.epoch.kind = "number" /\ checkpoints[i].epoch = arg.epoch.value}
    IN  /\ (supplied /\ held = {}) => ~result.found
        /\ (supplied /\ result.found) => result.epoch = arg.epoch.value
        /\ (~supplied /\ Len(checkpoints) = 0) => ~result.found
        /\ \A i \in FindCheckpoint(checkpoints, arg.epoch) :
             (\A l \in 1..Len(checkpoints[i].treeData.leaves) :
                checkpoints[i].treeData.leaves[l].poolId # arg.poolId)
               => ~result.found

\* C26: a buildTree call on an empty score set ends with an error and never
\* reaches the store, so it persists no checkpoint and uses up no epoch: every
\* checkpoint that is persisted, also after failed empty builds, carries
\* (last persisted epoch, or 0) + 1.
C26_EmptyBuildConsumesNothing ==
  [][/\ \A b \in BuildSlots :
          /\ breq'[b].empty => breq'[b].pc \in {"idle", "query", "resume", "threw"}
          /\ (breq[b].empty /\ breq[b].pc = "resume" /\ breq'[b] # breq[b])
               => (breq'[b].pc = "threw" /\ checkpoints' = checkpoints)
     /\ checkpoints' # checkpoints =>
          /\ Len(checkpoints') = Len(checkpoints) + 1
          /\ SubSeq(checkpoints', 1, Len(checkpoints)) = checkpoints
          /\ checkpoints'[Len(checkpoints')].epoch =
               (IF Len(checkpoints) = 0 THEN 0
                ELSE Max({checkpoints[i].epoch : i \in 1..Len(checkpoints)})) + 1]_vars

\* an empty build that had been given epoch 2 has thrown, and another build has
\* persisted the checkpoint of epoch 2
C26_Witness ==
  /\ Len(checkpoints) = 2
  /\ \E b1, b2 \in BuildSlots :
       /\ breq[b1].empty /\ breq[b1].pc = "threw" /\ breq[b1].epoch = 2
       /\ ~breq[b2].empty /\ breq[b2].pc = "done" /\ breq[b2].epoch = 2

\* C27: the store rejects a second signed pair score with the (pool, nonce) of a
\* record it holds, so the persisted records never contain the same pool and
\* nonce twice.
C27_StoredNoncesUnique ==
  \A i, j \in 1..Len(pairScores) :
    (i # j /\ pairScores[i].poolId = pairScores[j].poolId)
      => pairScores[i].nonce # pairScores[j].nonce

\* C28: across restarts a nonce returned for a pool is never issued again for it:
\* every nonce issued after a database read (the first one after a restart) is
\* greater than every nonce persisted for the pool, and with a warm cache each
\* issue is the cached nonce plus 1, made without a database read.
C28_NoReissueAcrossRestarts ==
  [][\A r \in SignSlots :
       LET pool == sreq'[r].pool
       IN  /\ (sreq[r].pc = "resume" /\ sreq'[r].pc = "sign")
                => sreq'[r].nonce > LastPersistedNonce(pairScores, pool)
           /\ (sreq[r].pc = "idle" /\ sreq'[r].pc # "idle" /\ nonces[pool] # 0)
                => (sreq'[r].pc = "sign" /\ sreq'[r].nonce = nonces[pool] + 1)
           /\ (sreq[r].pc = "idle" /\ sreq'[r].pc = "sign")
                => \A i \in 1..Len(pairScores) :
                     pairScores[i].poolId = pool => pairScores[i].nonce # sreq'[r].nonce]_vars

RECURSIVE C30_SingleRun(_)
C30_SingleRun(ids) ==
  IF ids = {} THEN {}
  ELSE LET i == CHOOSE j \in ids : TRUE
       IN  UpsertPost(C30_SingleRun(ids \ {i}), SourcePost(i), 0)

\* rows without the time of their last processing
C30_Content(rows) == {[x EXCEPT !.processedAt = 0] : x \in rows}

\* the aggregated metrics of a table and the scores calculated from them
C30_Metrics(rows) ==
  SeqRange(AggregateFromDB(CHOOSE s \in Orderings(RecentRows(rows)) : TRUE))

C30_Scores(rows) ==
  {[key |-> m.tokenSymbol, score |-> Calculate(m)] : m \in C30_Metrics(rows)}

\* C30: however often and however interleaved collection, metrics refresh and
\* backfill have saved the same source posts, the table holds exactly one row
\* per stored post id, its rows carry what a single save of these posts writes,
\* every aggregation of it yields the metrics of that single save, and the
\* metrics and scores the scheduler keeps are those of a single save of the
\* posts they were computed from
C30_CollectionIdempotent ==
  LET stored == {i \in 1..FeedSize : saveCount[i] > 0}
  IN  /\ \A i \in 1..FeedSize :
           Cardinality({x \in memexPosts : x.memexPostId = i})
             = IF i \in stored THEN 1 ELSE 0
      /\ C30_Content(memexPosts) = C30_Content(C30_SingleRun(stored))
      /\ \A dbPosts \in Orderings(RecentRows(memexPosts)) :
           SeqRange(AggregateFromDB(dbPosts)) = C30_Metrics(C30_SingleRun(stored))
      /\ SeqRange(latestAggregatedMetrics) = C30_Metrics(C30_SingleRun(aggregatedFrom))
      /\ \A i \in 1..Len(tokenScores) :
           \E ids \in SUBSET stored : tokenScores[i] \in C30_Scores(C30_SingleRun(ids))

\* a post stored by more than one statement has been aggregated and scored
\* while another run is still saving
C30_Witness ==
  \E i \in 1..FeedSize :
    /\ saveCount[i] >= 2
    /\ i \in aggregatedFrom
    /\ tokenScores # << >>
    /\ \E r \in CollectSlots : crun[r].pc = "save" /\ crun[r].pending # {}

\* ---- C31 ----

C32_CleanupKeepsTop ==
  called =>
    LET before == SeqRange(arg)
        after == SeqRange(result)
    IN  /\ Len(result) <= CACHE_LIMIT
        /\ after \subseteq before
        /\ Cardinality(after) = Len(result)
        /\ Len(arg) <= CACHE_LIMIT => result = arg
        /\ Len(arg) > CACHE_LIMIT =>
             /\ Len(result) = CACHE_LIMIT
             /\ \A kept \in after, evicted \in before \ after : kept.score >= evicted.score

\* two entries were evicted from a cache of 102, one of them set before an
\* entry of a higher score that stays
C32_Witness ==
  /\ called
  /\ Len(arg) = CACHE_LIMIT + 2
  /\ Len(result) = CACHE_LIMIT
  /\ \E i \in 1..CACHE_LIMIT, j \in (CACHE_LIMIT + 1)..(CACHE_LIMIT + 2) :
       /\ arg[i] \notin SeqRange(result)
       /\ arg[j] \in SeqRange(result)
       /\ arg[j].score > arg[i].score

\* ---- C33 ----

\* C33 (as claimed): no source post is passed over by incremental collection: a
\* post below the last saved id is stored or still waits to be saved in a run.
\* A post for which this fails is fetched by no later collectIncrementalPosts,
\* which keeps the ids above the last saved one only.
C33_NoPostPassedOver ==
  \A i \in 1..FeedSize :
    i < GetLastSavedPostId(memexPosts) =>
      \/ \E x \in memexPosts : x.memexPostId = i
      \/ \E r \in CollectSlots : SourcePost(i) \in crun[r].pending

\* ---- C34 ----

\* C34: collectIncrementalPosts calls fetchPostsWithCursor at most 20 times, and
\* once started it returns, whatever pages, cursors or errors the source answers
C34_TerminatesWithinLimit ==
  /\ [](pager.fetches <= MAX_PAGES)
  /\ (pager.pc = "loop") ~> (pager.pc = "done")

\* the function has returned at the page limit, after 20 pages that were all
\* new and all had a next cursor
C34_Witness ==
  /\ pager.pc = "done"
  /\ pager.fetches = MAX_PAGES
  /\ pager.pageCount = MAX_PAGES
  /\ pager.cursor # 0

\* ---- C35 ----

\* C35 (as claimed): symbols that get the pool identifier of (a, b) are, upper
\* case, the same unordered pair as a and b
C35_PoolIdInjective ==
  called =>
    \A other \in SymbolPairs :
      GeneratePairPoolId(other.tokenX, other.tokenY) = result
        => {ToUpperCase(other.tokenX), ToUpperCase(other.tokenY)}
             = {ToUpperCase(arg.tokenX), ToUpperCase(arg.tokenY)}

\* ---- C36 ----

\* C36 (as claimed): once no call is in flight, the persisted nonces of a pool
\* are consecutive from 1: a nonce that a failed call had drawn is the one the
\* next successful call uses
C36_PersistedNoncesConsecutive ==
  (\A r \in SignSlots : sreq[r].pc \in {"idle", "done", "failed"}) =>
    \A pool \in Pools :
      LET persisted == {pairScores[i].nonce :
                         i \in {j \in 1..Len(pairScores) : pairScores[j].poolId = pool}}
      IN  persisted # {} => persisted = 1..Max(persisted)

\* ---- C37 ----

\* C37 (as claimed): once no build is in flight, a tree held in memory is the
\* tree of a persisted checkpoint: the store holds a checkpoint of the epoch
\* its leaves embed, and getEpoch reports that epoch
C37_MemoryMatchesStore ==
  (\A b \in BuildSlots : breq[b].pc = "idle") =>
    (mbTree # 0 =>
       /\ \E i \in 1..Len(checkpoints) : checkpoints[i].epoch = mbTree
       /\ mbEpoch = mbTree)

\* ---- C38 ----

\* C38 (as claimed): when a collection cycle completes, every entry of the score
\* cache holds the score calculated from the metrics of that cycle, or 0
C38_CacheFollowsCycle ==
  [][\A r \in CollectSlots :
       (crun[r].pc = "score" /\ crun'[r].pc = "idle") =>
         LET scores == CalculateBatch(AggregateFromDB(crun[r].dbPosts))
         IN  \A i \in 1..Len(tokenScores') :
               \/ tokenScores'[i].score = 0
               \/ \E j \in 1..Len(scores) : scores[j] = tokenScores'[i]]_vars

\* ---- C39 ----

\* the runs of performInitialBackfill that have not returned yet
BackfillRuns == {r \in CollectSlots : crun[r].task \in {"backfill", "backfill-collect"}}

\* C39: at most one backfill executes at a time and backfillInProgress is true
\* exactly while one executes, after a fetch error as well; a trigger that
\* arrives while a backfill is in progress or completed answers 'skipped' and
\* starts nothing, any other trigger answers 'started'
C39_OneBackfillAtATime ==
  /\ [](Cardinality(BackfillRuns) <= 1 /\ (backfillInProgress <=> BackfillRuns # {}))
  /\ [][trigger' # trigger =>
         IF backfillCompleted \/ backfillInProgress
         THEN trigger'.status = "skipped" /\ crun' = crun /\ memexPosts' = memexPosts
         ELSE trigger'.status = "started"]_vars

\* a trigger was skipped while a backfill whose fetch failed was still executing
C39_Witness ==
  /\ trigger.status = "skipped"
  /\ backfillInProgress /\ ~backfillCompleted
  /\ \E r \in CollectSlots : crun[r].task = "backfill" /\ crun[r].fetchError

\* ---- C40 ----

\* C40 (as claimed): backfillCompleted is set only by a backfill whose fetches
\* all succeeded
C40_CompletedOnlyWithoutFetchError ==
  [][(~backfillCompleted /\ backfillCompleted') =>
       \A r \in CollectSlots : crun[r].task = "backfill" => ~crun[r].fetchError]_vars

====
